---------------------------- MODULE Spec2Model ----------------------------
(***************************************************************************)
(* Model of the WDT sender: the per-connection SenderThread state machine  *)
(* (src/Sender.h, lines 269-1225 hold SenderThread's implementation) and   *)
(* the coordination it performs with its sibling threads through the      *)
(* parent Sender, the threads controller and the transfer histories.       *)
(*                                                                         *)
(* Every thread runs the loop of SenderThread::start: an abort check        *)
(* (pc = "check") followed by the handler of its current state              *)
(* (pc = "run").  The peer, the socket and the byte sources are the         *)
(* environment: what they answer is chosen with \E in each handler.         *)
(***************************************************************************)
EXTENDS Integers, Sequences, FiniteSets, TLC

\* the transfer whose reconnects are followed: its sources and the failures
\* of the environment
NumSourcesReconnect == 1
MaxFaultsReconnect == 2

(***************************************************************************)
(* Bounds of the model                                                     *)
(***************************************************************************)
\* number of sender threads (one per destination port; port of thread t is t)
NumThreads == 2
\* number of blocks (byte sources) the directory queue hands out
NumSources == 2
\* number of things the environment may do off the happy path in a run
\* of a single thread
MaxFaults == 3
\* the same for a run of all the threads
MaxFaultsAllThreads == 1
\* number of blocks the directory queue hands out in a run of all the threads
NumSourcesAllThreads == 1
\* options_.max_transfer_retries
MaxTransferRetries == 1
\* options_.max_retries
MaxRetries == 2
\* largest unacked-byte count the socket reports in readNextReceiverCmd
MaxUnacked == 3
\* longest run of timed-out reads in one readNextReceiverCmd call
MaxDrainReads == 3
\* largest options_.max_retries connectToReceiver is applied to on its own
MaxConnectAttempts == 3
\* sources and failures of the runs whose threads are scheduled fairly
NumSourcesFair == 0
MaxFaultsFair == 1

\* number of blocks and of things the environment may do off the happy path
\* in a run that is traced
NumSourcesTraced == 1
MaxFaultsTraced == 1

(***************************************************************************)
(* Program constants                                                       *)
(***************************************************************************)
\* Protocol::protocol_version, the version the sender starts with
ProtocolVersion == 30
\* Protocol::RECEIVER_PROGRESS_REPORT_VERSION
RECEIVER_PROGRESS_REPORT_VERSION == 11
\* Protocol::CHECKSUM_VERSION
CHECKSUM_VERSION == 12
\* Protocol::INCREMENTAL_TAG_VERIFICATION_VERSION
INCREMENTAL_TAG_VERIFICATION_VERSION == 25

Threads == 1..NumThreads
Sources == 1..NumSources
\* versions a receiver may put in its ABORT frame
PeerVersions == {10, 28, 31}

SenderState ==
  {"CONNECT", "READ_LOCAL_CHECKPOINT", "SEND_SETTINGS", "SEND_BLOCKS",
   "SEND_DONE_CMD", "SEND_SIZE_CMD", "CHECK_FOR_ABORT", "READ_FILE_CHUNKS",
   "READ_RECEIVER_CMD", "PROCESS_DONE_CMD", "PROCESS_WAIT_CMD",
   "PROCESS_ERR_CMD", "PROCESS_ABORT_CMD", "PROCESS_VERSION_MISMATCH", "END"}

ProtoNegotiationStatus ==
  {"V_MISMATCH_WAIT", "V_MISMATCH_RESOLVED", "V_MISMATCH_FAILED"}

FunnelStatus == {"FUNNEL_START", "FUNNEL_PROGRESS", "FUNNEL_END"}

\* commands the receiver sends
ReceiverCmds ==
  {"DONE_CMD", "WAIT_CMD", "ERR_CMD", "ABORT_CMD", "LOCAL_CHECKPOINT_CMD",
   "CHUNKS_CMD", "ACK_CMD", "UNKNOWN_CMD"}

VARIABLES
  threads,      \* [Threads -> the fields of one SenderThread]
  histories,    \* [Threads -> the ThreadTransferHistory of the thread]
  abortCode,    \* WdtBase::abortCode_, read by getCurAbortCode
  protoNegotiationStatus,  \* Sender::protoNegotiationStatus_
  protocolVersion,         \* the parent's transferRequest_.protocolVersion
  registered,   \* threads the controller still counts in its barriers
  arrived,      \* threads that have hit VERSION_MISMATCH_BARRIER
  funnel,       \* status of VERSION_MISMATCH_FUNNEL
  queue,        \* the directory queue: sources waiting to be sent
  acked,        \* sources marked acknowledged (durable on the peer)
  fileChunksReceived,      \* Sender::fileChunksReceived_
  fileDiscoveryFinished,   \* dirQueue_->fileDiscoveryFinished()
  options,      \* the configuration of the transfer
  checkFailed,  \* the WDT_CHECK that killed the process, "none" while alive
  faults,       \* what the environment may still do off the happy path
  probe         \* the last input observed of a function, and its result

vars == <<threads, histories, abortCode, protoNegotiationStatus,
          protocolVersion, registered, arrived, funnel, queue, acked,
          fileChunksReceived, fileDiscoveryFinished, options, checkFailed,
          faults, probe>>

(***************************************************************************)
(* Helpers                                                                 *)
(***************************************************************************)
\* record r with the fields of ch replaced
Merge(r, ch) == [f \in DOMAIN r |-> IF f \in DOMAIN ch THEN ch[f] ELSE r[f]]

Range(s) == {s[i] : i \in DOMAIN s}

Min(a, b) == IF a < b THEN a ELSE b

\* the environment does one more thing off the happy path
Fault == faults > 0 /\ faults' = faults - 1

Alive == checkFailed = "none"

\* nothing was observed yet
NoProbe == [function |-> "none"]

\* the reconnects of a thread may be followed: no reconnect has been seen
\* yet
NoReconnect == [function |-> "reconnect", seen |-> FALSE]

\* what was observed in the last handler of thread t is dropped
Forget(t) ==
  probe' = IF probe.function = "readAndVerifySpuriousCheckpoint"
              /\ probe.thread = t
             THEN NoProbe ELSE probe

\* a run of one thread may be traced: `probe` then holds the states whose
\* handlers ran, the frames written in full and the commands read, the frame
\* the last READ_LOCAL_CHECKPOINT read, and the thread's numBlocks and
\* dataBytes statistics
Tracing == probe.function = "path"

NoPath ==
  [function |-> "path", states |-> << >>, wire |-> << >>,
   checkpoint |-> [complete |-> FALSE, decodes |-> FALSE, checkpoints |-> << >>],
   numBlocks |-> 0, dataBytes |-> 0]

\* a frame written to the peer, a command or an end of stream read from it
Out(cmd) == [dir |-> "out", cmd |-> cmd]

In(cmd) == [dir |-> "in", cmd |-> cmd]

\* a handler has written and read `entries` and changed the fields in ch of
\* what is traced
Traced(entries, ch) ==
  probe' = IF Tracing
             THEN Merge([probe EXCEPT !.wire = @ \o entries], ch)
             ELSE probe

\* nothing but the wire is traced of a handler
Wire == [function |-> "path"]

\* the loop of thread t is about to run the handler of st
Visit(t, st) ==
  IF Tracing THEN probe' = [probe EXCEPT !.states = Append(@, st)]
  ELSE Forget(t)

\* a handler of thread t returns `next`, having changed the fields in ch;
\* the loop condition state != END is decided here (line 1163)
Return(t, next, ch) ==
  threads' = [threads EXCEPT ![t] =
     Merge(Merge(@, ch),
           [state |-> next, pc |-> IF next = "END" THEN "exit" ELSE "check"])]

\* a handler that changes no field but the state it returns
Same == [pc |-> "check"]

\* thread t is about to run the handler of `st` (line 1174)
Running(t, st) ==
  /\ Alive
  /\ threads[t].pc = "run"
  /\ threads[t].state = st

(***************************************************************************)
(* SenderThread::getThreadAbortCode                                        *)
(***************************************************************************)
\* variant of threadAbortCode: the flag of the history is looked at first
threadAbortCodeFlagFirst(globalAbortCode, isGlobalCheckpointReceived) ==
  IF isGlobalCheckpointReceived THEN "GLOBAL_CHECKPOINT_ABORT"
  ELSE globalAbortCode

\* lines 1214-1223, as a function of the parent's abort code and of the flag
\* of the thread's history
threadAbortCode(globalAbortCode, isGlobalCheckpointReceived) ==
  IF globalAbortCode # "OK" THEN globalAbortCode
  ELSE IF isGlobalCheckpointReceived THEN "GLOBAL_CHECKPOINT_ABORT"
  ELSE "OK"

getThreadAbortCode(t) ==
  threadAbortCode(abortCode, histories[t].globalCheckpoint)

(***************************************************************************)
(* SenderThread::setFooterType, as a function of the parent's version      *)
(***************************************************************************)
\* variant of FooterTypeFor: enable_checksum is not looked at
FooterTypeForNoChecksum(version) ==
  IF version >= INCREMENTAL_TAG_VERIFICATION_VERSION /\ options.encryptionTag
    THEN "ENC_TAG_FOOTER"
  ELSE "NO_FOOTER"

FooterTypeFor(version) ==
  IF version >= INCREMENTAL_TAG_VERIFICATION_VERSION /\ options.encryptionTag
    THEN "ENC_TAG_FOOTER"
  ELSE IF version >= CHECKSUM_VERSION /\ options.enable_checksum
    THEN "CHECKSUM_FOOTER"
  ELSE "NO_FOOTER"


(***************************************************************************)
(* Checkpoints and the frames that carry them.  A frame is what            *)
(* Protocol::decodeCheckpoints makes of the bytes read: whether they       *)
(* decode, and the checkpoints decoded.                                    *)
(***************************************************************************)
Checkpoint(p, n, seq, bytes) ==
  [port |-> p, numBlocks |-> n, lastBlockSeqId |-> seq,
   lastBlockReceivedBytes |-> bytes]

NoCheckpoint == Checkpoint(0, 0, 0, 0)

\* checkpoints a peer may send, for this thread's port or for another one
Checkpoints ==
  {Checkpoint(p, n, seq, bytes) :
     p \in Threads, n \in -1..NumSources, seq \in 0..1, bytes \in 0..1}

Frame(complete, decodes, checkpoints) ==
  [complete |-> complete, decodes |-> decodes, checkpoints |-> checkpoints]

\* the frames that are read in full
CheckpointFrames ==
  {Frame(TRUE, FALSE, <<>>), Frame(TRUE, TRUE, <<>>)}
  \cup {Frame(TRUE, TRUE, <<c>>) : c \in Checkpoints}
  \cup {Frame(TRUE, TRUE, <<c, c>>) : c \in Checkpoints}

\* the read of the frame came short
ShortFrame == Frame(FALSE, FALSE, <<>>)

\* checkpoints that say nothing was received, or differ from that in one
\* field
NearlySpurious ==
  {c \in Checkpoints :
     /\ c.numBlocks \in 0..1
     /\ c.numBlocks + c.lastBlockSeqId + c.lastBlockReceivedBytes <= 1}

\* the frames the state machine is run against after a LOCAL_CHECKPOINT
\* command byte in the middle of a stream
SpuriousFrames ==
  {ShortFrame, Frame(TRUE, FALSE, <<>>), Frame(TRUE, TRUE, <<>>)}
  \cup {Frame(TRUE, TRUE, <<c>>) : c \in NearlySpurious}
  \cup {Frame(TRUE, TRUE, <<c, c>>) :
          c \in {d \in NearlySpurious : d.numBlocks + d.lastBlockSeqId
                                         + d.lastBlockReceivedBytes = 0}}

(***************************************************************************)
(* ThreadTransferHistory: the log of the sources dispatched on the         *)
(* connection, the local checkpoint index and the global-checkpoint flag.  *)
(***************************************************************************)
NewHistory ==
  [log |-> <<>>, numAcknowledged |-> 0, hasCheckpoint |-> FALSE,
   lastCheckpoint |-> NoCheckpoint, globalCheckpoint |-> FALSE,
   inUse |-> TRUE]

\* the sources of the log the peer has not acknowledged
Unacked(h) == SubSeq(h.log, h.numAcknowledged + 1, Len(h.log))

\* setLocalCheckpoint's verdict on checkpoint cp
validateCheckpoint(h, cp) ==
  IF cp.numBlocks > Len(h.log) \/ cp.numBlocks < 0 THEN "INVALID_CHECKPOINT"
  ELSE IF h.hasCheckpoint /\ cp.numBlocks < h.lastCheckpoint.numBlocks
    THEN "INVALID_CHECKPOINT"
  ELSE IF h.hasCheckpoint /\ cp = h.lastCheckpoint THEN "NO_PROGRESS"
  ELSE "OK"

\* the history after checkpoint cp was set: the log is cut at the checkpoint
setCheckpoint(h, cp, global) ==
  [h EXCEPT !.log = SubSeq(h.log, 1, cp.numBlocks),
            !.numAcknowledged = cp.numBlocks,
            !.hasCheckpoint = TRUE,
            !.lastCheckpoint = cp,
            !.globalCheckpoint = h.globalCheckpoint \/ global]

\* the sources a checkpoint sends back to the directory queue
BeyondCheckpoint(h, cp) == SubSeq(h.log, cp.numBlocks + 1, Len(h.log))

\* markAllAcknowledged: the log collapses, all of it is durable on the peer
markAllAcknowledged(h) == [h EXCEPT !.log = <<>>, !.numAcknowledged = 0]

\* addSource when no global checkpoint is flagged
addSource(h, s) == [h EXCEPT !.log = Append(h.log, s)]

\* markNotInUse: the thread is gone, what it did not get acknowledged is
\* handed back for another thread to retry
markNotInUse(h) ==
  [h EXCEPT !.log = SubSeq(h.log, 1, h.numAcknowledged), !.inUse = FALSE]

(***************************************************************************)
(* WdtBase::abort and clearAbort: the shared abort code                    *)
(***************************************************************************)
\* compare-and-set: the first abort code stays
abort(code) == IF abortCode = "OK" THEN code ELSE abortCode

(***************************************************************************)
(* Protocol::negotiateProtocol: the version both sides can speak           *)
(***************************************************************************)
negotiateProtocol(requested, current) == Min(requested, current)

(***************************************************************************)
(* The threads controller: barrier and funnel of the version mismatch      *)
(***************************************************************************)
\* VERSION_MISMATCH_BARRIER lets threads through once every thread that is
\* still registered has arrived
BarrierComplete == registered \subseteq arrived

(***************************************************************************)
(* SenderThread::connectToReceiver: `attempts` is what socket->connect()   *)
(* answers on each attempt, one entry per possible attempt.  The result    *)
(* holds the error code, the attempts made and the sleeps taken.           *)
(***************************************************************************)
RECURSIVE connectLoop(_, _, _, _, _)
connectLoop(attempts, maxRetries, i, sleeps, abortNow) ==
  IF i > maxRetries
    THEN [code |-> "CONN_ERROR", connectAttempts |-> i - 1, sleeps |-> sleeps]
  ELSE IF attempts[i] = "OK"
    THEN [code |-> "OK", connectAttempts |-> i, sleeps |-> sleeps]
  ELSE IF attempts[i] = "CONN_ERROR"
    THEN [code |-> "CONN_ERROR", connectAttempts |-> i, sleeps |-> sleeps]
  ELSE IF abortNow # "OK"
    THEN [code |-> "ABORT", connectAttempts |-> i, sleeps |-> sleeps]
  ELSE connectLoop(attempts, maxRetries, i + 1,
                   IF i # maxRetries THEN sleeps + 1 ELSE sleeps, abortNow)

\* variant of connectToReceiver: max_retries is used as it is given
connectToReceiverUnclamped(attempts, max_retries, abortNow) ==
  connectLoop(attempts, max_retries, 1, 0, abortNow)

connectToReceiver(attempts, max_retries, abortNow) ==
  connectLoop(attempts, IF max_retries < 1 THEN 1 ELSE max_retries, 1, 0,
              abortNow)

\* what socket->connect() may answer
ConnectResults == {"OK", "CONN_ERROR", "CONN_REFUSED"}

\* the answers to the attempts of one connectToReceiver call
ConnectScripts(n) == [1..(IF n < 1 THEN 1 ELSE n) -> ConnectResults]

(***************************************************************************)
(* Init: the sender has constructed its threads and their histories        *)
(***************************************************************************)
NewThread ==
  [pc |-> "start", state |-> "CONNECT", localErrorCode |-> "OK",
   remoteErrorCode |-> "OK", numReconnectWithoutProgress |-> 0,
   threadProtocolVersion |-> ProtocolVersion, negotiatedProtocol |-> 0,
   footerType |-> "NO_FOOTER", totalSizeSent |-> FALSE, hasSocket |-> FALSE]

\* the transfer uses one port or all of them
Options ==
  [enable_checksum : {TRUE}, encryptionTag : {FALSE},
   sendFileChunks : BOOLEAN, max_retries : {MaxRetries},
   ports : {1, NumThreads}]

\* the sender has constructed a thread and a history for each of its ports,
\* given its options, the sources to send and what the environment may do
Constructed(opts, numSources, budget) ==
  /\ options \in opts
  /\ threads = [t \in Threads |->
       IF t <= options.ports THEN NewThread
       ELSE Merge(NewThread, [pc |-> "unused"])]
  /\ histories = [t \in Threads |->
       IF t <= options.ports THEN NewHistory
       ELSE Merge(NewHistory, [inUse |-> FALSE])]
  /\ abortCode = "OK"
  /\ protoNegotiationStatus = "V_MISMATCH_WAIT"
  /\ protocolVersion = ProtocolVersion
  /\ registered = 1..options.ports
  /\ arrived = {}
  /\ funnel = "FUNNEL_START"
  /\ queue = [i \in 1..numSources |-> i]
  /\ acked = {}
  /\ fileChunksReceived = FALSE
  /\ fileDiscoveryFinished = FALSE
  /\ checkFailed = "none"
  /\ faults = budget

\* a transfer over all the ports
Init ==
  /\ Constructed({o \in Options : o.ports = NumThreads /\ o.sendFileChunks},
                 NumSourcesAllThreads, MaxFaultsAllThreads)
  /\ probe = NoProbe

\* a transfer over all the ports of a directory that may be empty
InitFair ==
  /\ Constructed({o \in Options : o.ports = NumThreads /\ o.sendFileChunks},
                 NumSourcesFair, MaxFaultsFair)
  /\ probe = NoProbe

\* a transfer over one port
InitOnePort ==
  /\ Constructed({o \in Options : o.ports = 1}, NumSources, MaxFaults)
  /\ probe = NoProbe

\* a transfer over one port whose run is traced
InitPath ==
  /\ Constructed({o \in Options : o.ports = 1}, NumSourcesTraced,
                 MaxFaultsTraced)
  /\ probe = NoPath

\* a transfer over one port whose reconnects are followed
InitReconnect ==
  /\ Constructed({o \in Options : o.ports = 1}, NumSourcesReconnect,
                 MaxFaultsReconnect)
  /\ probe = NoReconnect

(***************************************************************************)
(* SenderThread::start: entry, the state loop and the exit                 *)
(***************************************************************************)
\* lines 1149-1161: the scratch buffer may be missing
start(t) ==
  /\ Alive
  /\ threads[t].pc = "start"
  /\ \/ /\ Fault
        /\ threads' = [threads EXCEPT ![t] =
             Merge(@, [pc |-> "done",
                       localErrorCode |-> "MEMORY_ALLOCATION_ERROR"])]
     \/ /\ faults' = faults
        /\ threads' = [threads EXCEPT ![t] =
             Merge(@, [pc |-> "check", state |-> "CONNECT",
                       footerType |-> FooterTypeFor(protocolVersion)])]
  /\ UNCHANGED <<histories, abortCode, protoNegotiationStatus,
                 protocolVersion, registered, arrived, funnel, queue, acked,
                 fileChunksReceived, fileDiscoveryFinished, options, probe,
                 checkFailed>>

\* variant of loopCheck: only a version mismatch is looked for
loopCheckMismatchOnly(t) ==
  /\ Alive
  /\ threads[t].pc = "check"
  /\ threads' = [threads EXCEPT ![t] =
       IF getThreadAbortCode(t) = "VERSION_MISMATCH"
         THEN Merge(@, [pc |-> "run", localErrorCode |-> "ABORT",
                        state |-> "PROCESS_VERSION_MISMATCH"])
       ELSE Merge(@, [pc |-> "run"])]
  /\ Forget(t)
  /\ UNCHANGED <<histories, abortCode, protoNegotiationStatus,
                 protocolVersion, registered, arrived, funnel, queue, acked,
                 fileChunksReceived, fileDiscoveryFinished, options,
                 checkFailed, faults>>

\* variant of loopHead: the loop is left on an abort without a mark in the
\* local error code
loopHeadLeavesQuietly(code, th) ==
  IF code = "OK" THEN Merge(th, [pc |-> "run"])
  ELSE IF code = "VERSION_MISMATCH"
    THEN Merge(th, [pc |-> "run", localErrorCode |-> "ABORT",
                    state |-> "PROCESS_VERSION_MISMATCH"])
  ELSE Merge(th, [pc |-> "exit"])

\* lines 1163-1173: what the head of the loop does to a thread, given its
\* abort code: the handler of the state is run next, or the loop is left
loopHead(code, th) ==
  IF code = "OK" THEN Merge(th, [pc |-> "run"])
  ELSE IF code = "VERSION_MISMATCH"
    THEN Merge(th, [pc |-> "run", localErrorCode |-> "ABORT",
                    state |-> "PROCESS_VERSION_MISMATCH"])
  ELSE Merge(th, [pc |-> "exit", localErrorCode |-> "ABORT"])

\* lines 1163-1173: the abort check before every handler
loopCheck(t) ==
  /\ Alive
  /\ threads[t].pc = "check"
  /\ threads' = [threads EXCEPT ![t] = loopHead(getThreadAbortCode(t), @)]
  /\ LET code == getThreadAbortCode(t) IN
       IF code = "OK" THEN Visit(t, threads[t].state)
       ELSE IF code = "VERSION_MISMATCH"
         THEN Visit(t, "PROCESS_VERSION_MISMATCH")
       ELSE Forget(t)
  /\ UNCHANGED <<histories, abortCode, protoNegotiationStatus,
                 protocolVersion, registered, arrived, funnel, queue, acked,
                 fileChunksReceived, fileDiscoveryFinished, options,
                 checkFailed, faults>>

\* lines 1177-1194: the history is released and the thread deregisters
exit(t) ==
  /\ Alive
  /\ threads[t].pc = "exit"
  /\ threads' = [threads EXCEPT ![t] =
       Merge(@, [pc |-> "done", hasSocket |-> FALSE])]
  /\ histories' = [histories EXCEPT ![t] = markNotInUse(@)]
  /\ queue' = queue \o Unacked(histories[t])
  /\ registered' = registered \ {t}
  /\ IF threads[t].state = "END" THEN Visit(t, "END") ELSE Forget(t)
  /\ UNCHANGED <<abortCode, protoNegotiationStatus, protocolVersion, arrived,
                 funnel, acked, fileChunksReceived, fileDiscoveryFinished,
                 options, checkFailed, faults>>

(***************************************************************************)
(* CONNECT (lines 358-399)                                                 *)
(***************************************************************************)
\* variant of reset: the local error code of the connection before is kept
resetKeepsError(th) ==
  [localErrorCode |-> th.localErrorCode, totalSizeSent |-> FALSE]

\* reset, lines 1209-1212
reset(th) == [localErrorCode |-> "OK", totalSizeSent |-> FALSE]

\* variant of connect: the reconnects without progress are not counted
connectRegardless(t) ==
  /\ Running(t, "CONNECT")
  /\ LET th == threads[t] IN
     \/ \* the old socket carries a non-retryable error (lines 360-367)
        /\ th.hasSocket
        /\ Fault
        /\ Return(t, "END", [localErrorCode |-> "ENCRYPTION_ERROR"])
     \/ \* a new socket is connected (lines 377-398)
        /\ \E attempts \in ConnectScripts(options.max_retries) :
             LET r == connectToReceiver(attempts, options.max_retries,
                                        getThreadAbortCode(t))
             IN
             /\ IF \A i \in 1..r.connectAttempts : attempts[i] = "OK"
                  THEN faults' = faults ELSE Fault
             /\ IF r.code = "ABORT"
                  THEN Return(t,
                         IF getThreadAbortCode(t) = "VERSION_MISMATCH"
                           THEN "PROCESS_VERSION_MISMATCH" ELSE "END",
                         [localErrorCode |-> "ABORT", hasSocket |-> FALSE])
                ELSE IF r.code # "OK"
                  THEN Return(t, "END",
                         [localErrorCode |-> r.code, hasSocket |-> FALSE])
                ELSE Return(t,
                       IF th.localErrorCode # "OK"
                         THEN "READ_LOCAL_CHECKPOINT" ELSE "SEND_SETTINGS",
                       \* reset(), lines 1209-1212
                       [localErrorCode |-> "OK", totalSizeSent |-> FALSE,
                        hasSocket |-> TRUE])
  /\ UNCHANGED <<histories, abortCode, protoNegotiationStatus,
                 protocolVersion, registered, arrived, funnel, queue, acked,
                 fileChunksReceived, fileDiscoveryFinished, options, probe,
                 checkFailed>>

\* variant of afterAbort: an abort ends the thread whatever its cause
afterAbortEnds(code) == "END"

\* lines 383-389: the state after an abort was seen between two attempts
afterAbort(code) ==
  IF code = "VERSION_MISMATCH" THEN "PROCESS_VERSION_MISMATCH" ELSE "END"

\* variant of afterConnect: the settings are sent after every connect
afterConnectSendsSettings(localErrorCode) == "SEND_SETTINGS"

\* lines 394-397: the state after the socket was connected
afterConnect(localErrorCode) ==
  IF localErrorCode # "OK" THEN "READ_LOCAL_CHECKPOINT" ELSE "SEND_SETTINGS"

\* connect, lines 358-399
\* what the sender holds, but for what its environment may still do
Held37(t) ==
  [thread |-> threads[t], histories |-> histories, queue |-> queue,
   acked |-> acked, abortCode |-> abortCode,
   protoNegotiationStatus |-> protoNegotiationStatus,
   protocolVersion |-> protocolVersion, registered |-> registered,
   arrived |-> arrived, funnel |-> funnel,
   fileChunksReceived |-> fileChunksReceived,
   fileDiscoveryFinished |-> fileDiscoveryFinished]

\* when the reconnects are followed, a connect that succeeds after an error
\* (lines 393-398) leaves behind what the sender held when it began
Reconnected(t) ==
  probe' = IF /\ probe.function = "reconnect"
              /\ threads'[t].state = "READ_LOCAL_CHECKPOINT"
             THEN [function |-> "reconnect", seen |-> TRUE,
                   held |-> Held37(t)]
           ELSE probe

connect(t) ==
  /\ Running(t, "CONNECT")
  /\ LET th == threads[t] IN
     \/ \* the old socket carries a non-retryable error (lines 360-367)
        /\ th.hasSocket
        /\ Fault
        /\ Return(t, "END", [localErrorCode |-> "ENCRYPTION_ERROR"])
     \/ \* too many reconnects without progress (lines 370-376)
        /\ th.numReconnectWithoutProgress >= MaxTransferRetries
        /\ faults' = faults
        /\ Return(t, "END", [localErrorCode |-> "NO_PROGRESS"])
     \/ \* a new socket is connected (lines 377-398)
        /\ th.numReconnectWithoutProgress < MaxTransferRetries
        /\ \E attempts \in ConnectScripts(options.max_retries) :
             LET r == connectToReceiver(attempts, options.max_retries,
                                        getThreadAbortCode(t))
             IN
             /\ IF \A i \in 1..r.connectAttempts : attempts[i] = "OK"
                  THEN faults' = faults ELSE Fault
             /\ IF r.code = "ABORT"
                  THEN Return(t, afterAbort(getThreadAbortCode(t)),
                         [localErrorCode |-> "ABORT", hasSocket |-> FALSE])
                ELSE IF r.code # "OK"
                  THEN Return(t, "END",
                         [localErrorCode |-> r.code, hasSocket |-> FALSE])
                ELSE Return(t, afterConnect(th.localErrorCode),
                       [localErrorCode |-> reset(th).localErrorCode,
                        totalSizeSent |-> reset(th).totalSizeSent,
                        hasSocket |-> TRUE])
  /\ Reconnected(t)
  /\ UNCHANGED <<histories, abortCode, protoNegotiationStatus,
                 protocolVersion, registered, arrived, funnel, queue, acked,
                 fileChunksReceived, fileDiscoveryFinished, options,
                 checkFailed>>

(***************************************************************************)
(* READ_LOCAL_CHECKPOINT (lines 401-456)                                   *)
(***************************************************************************)
\* lines 437-443: the receiver failed while it was sending the DONE command
receiverFailedInDone(checkpoint) == checkpoint.numBlocks = -1

\* variant of reconnectsWithoutProgress: a checkpoint without progress
\* leaves the count as it is
reconnectsWithoutProgressKept(th, errCode) ==
  IF errCode = "NO_PROGRESS" THEN th.numReconnectWithoutProgress ELSE 0

\* lines 450-454: the reconnects without progress after setLocalCheckpoint
\* answered errCode
reconnectsWithoutProgress(th, errCode) ==
  IF errCode = "NO_PROGRESS" THEN th.numReconnectWithoutProgress + 1 ELSE 0

readLocalCheckPoint(t) ==
  /\ Running(t, "READ_LOCAL_CHECKPOINT")
  /\ LET th == threads[t]
         h == histories[t]
     IN
     \/ \* short read (lines 409-415)
        /\ Fault
        /\ Return(t, "CONNECT",
             [localErrorCode |-> "SOCKET_READ_ERROR",
              numReconnectWithoutProgress |->
                th.numReconnectWithoutProgress + 1])
        /\ Traced(<< >>, [checkpoint |-> ShortFrame])
        /\ UNCHANGED <<histories, queue, acked>>
     \/ \E frame \in CheckpointFrames :
          LET isValidCheckpoint ==
                /\ frame.decodes
                /\ Len(frame.checkpoints) = 1
                /\ frame.checkpoints[1].port = t
              checkpoint == frame.checkpoints[1]
              errCode == validateCheckpoint(h, checkpoint)
          IN
          /\ Traced(<<In("LOCAL_CHECKPOINT")>>, [checkpoint |-> frame])
          /\ IF ~isValidCheckpoint
               THEN \* lines 416-435
                    /\ Fault
                    /\ Return(t, "END", [localErrorCode |-> "PROTOCOL_ERROR"])
                    /\ UNCHANGED <<histories, queue, acked>>
             ELSE IF receiverFailedInDone(checkpoint)
               THEN \* lines 440-443
                    /\ faults' = faults
                    /\ Return(t, "READ_RECEIVER_CMD", Same)
                    /\ UNCHANGED <<histories, queue, acked>>
             ELSE IF errCode = "INVALID_CHECKPOINT"
               THEN \* lines 445-449
                    /\ Fault
                    /\ Return(t, "END", [localErrorCode |-> "PROTOCOL_ERROR"])
                    /\ UNCHANGED <<histories, queue, acked>>
             ELSE \* lines 450-455
                  /\ faults' = faults
                  /\ Return(t, "SEND_SETTINGS",
                       [numReconnectWithoutProgress |->
                          reconnectsWithoutProgress(th, errCode)])
                  /\ histories' =
                       [histories EXCEPT ![t] = setCheckpoint(@, checkpoint, FALSE)]
                  /\ queue' = queue \o BeyondCheckpoint(h, checkpoint)
                  /\ acked' = acked \cup Range(SubSeq(h.log, 1, checkpoint.numBlocks))
  /\ UNCHANGED <<abortCode, protoNegotiationStatus, protocolVersion,
                 registered, arrived, funnel, fileChunksReceived,
                 fileDiscoveryFinished, options, checkFailed>>

(***************************************************************************)
(* SEND_SETTINGS (lines 458-483)                                           *)
(***************************************************************************)
sendSettings(t) ==
  /\ Running(t, "SEND_SETTINGS")
  /\ \/ /\ Fault
        /\ Return(t, "CONNECT", [localErrorCode |-> "SOCKET_WRITE_ERROR"])
        /\ Traced(<< >>, Wire)
     \/ /\ faults' = faults
        /\ Return(t, IF options.sendFileChunks THEN "READ_FILE_CHUNKS"
                     ELSE "SEND_BLOCKS", Same)
        /\ Traced(<<Out("SETTINGS")>>, Wire)
  /\ UNCHANGED <<histories, abortCode, protoNegotiationStatus,
                 protocolVersion, registered, arrived, funnel, queue, acked,
                 fileChunksReceived, fileDiscoveryFinished, options,
                 checkFailed>>

(***************************************************************************)
(* sendOneByteSource (lines 516-646).  `how` is what the socket and the    *)
(* byte source do to this block; every block has SourceChunks chunks.  An  *)
(* abort code that is set while the block is sent is seen by the check     *)
(* after the write of some chunk (line 585).  The result is the block's    *)
(* TransferStats.                                                          *)
(***************************************************************************)
SourceChunks == 2

SendOutcomes ==
  {[kind |-> k, chunk |-> c] :
     k \in {"headerWriteError", "sourceReadError", "aborted",
            "dataWriteError"},
     c \in 1..SourceChunks}
  \cup {[kind |-> k, chunk |-> SourceChunks] : k \in {"footerWriteError", "sent"}}

\* the header of a block and the n chunks of it that were written in full
BlockFrames(n) == <<Out("FILE")>> \o [i \in 1..n |-> Out("DATA")]

\* variant of sendOneByteSource: a block the source read short is counted
sendOneByteSourceCountsShort(how, footer) ==
  CASE how.kind = "headerWriteError" ->
         [localErrorCode |-> "SOCKET_WRITE_ERROR", numBlocks |-> 0,
          dataBytes |-> 0, footerWritten |-> FALSE, frames |-> << >>]
    [] how.kind = "sourceReadError" ->
         [localErrorCode |-> "BYTE_SOURCE_READ_ERROR", numBlocks |-> 1,
          dataBytes |-> how.chunk - 1, footerWritten |-> FALSE,
          frames |-> BlockFrames(how.chunk - 1)]
    [] how.kind \in {"aborted", "dataWriteError", "footerWriteError"} ->
         [localErrorCode |->
            IF how.kind = "aborted" THEN "ABORT" ELSE "SOCKET_WRITE_ERROR",
          numBlocks |-> 0,
          dataBytes |-> IF how.kind = "footerWriteError" THEN SourceChunks
                        ELSE how.chunk - 1,
          footerWritten |-> FALSE,
          frames |-> BlockFrames(IF how.kind = "footerWriteError"
                                   THEN SourceChunks ELSE how.chunk - 1)]
    [] OTHER ->
         [localErrorCode |-> "OK", numBlocks |-> 1,
          dataBytes |-> SourceChunks, footerWritten |-> footer # "NO_FOOTER",
          frames |-> BlockFrames(SourceChunks)
                       \o (IF footer # "NO_FOOTER" THEN <<Out("FOOTER")>>
                           ELSE << >>)]

sendOneByteSource(how, footer) ==
  CASE how.kind = "headerWriteError" ->
         [localErrorCode |-> "SOCKET_WRITE_ERROR", numBlocks |-> 0,
          dataBytes |-> 0, footerWritten |-> FALSE, frames |-> << >>]
    [] how.kind = "sourceReadError" ->
         [localErrorCode |-> "BYTE_SOURCE_READ_ERROR", numBlocks |-> 0,
          dataBytes |-> how.chunk - 1, footerWritten |-> FALSE,
          frames |-> BlockFrames(how.chunk - 1)]
    [] how.kind = "aborted" ->
         [localErrorCode |-> "ABORT", numBlocks |-> 0,
          dataBytes |-> how.chunk - 1, footerWritten |-> FALSE,
          frames |-> BlockFrames(how.chunk - 1)]
    [] how.kind = "dataWriteError" ->
         [localErrorCode |-> "SOCKET_WRITE_ERROR", numBlocks |-> 0,
          dataBytes |-> how.chunk - 1, footerWritten |-> FALSE,
          frames |-> BlockFrames(how.chunk - 1)]
    [] how.kind = "footerWriteError" ->
         [localErrorCode |-> "SOCKET_WRITE_ERROR", numBlocks |-> 0,
          dataBytes |-> SourceChunks, footerWritten |-> FALSE,
          frames |-> BlockFrames(SourceChunks)]
    [] OTHER ->
         [localErrorCode |-> "OK", numBlocks |-> 1,
          dataBytes |-> SourceChunks, footerWritten |-> footer # "NO_FOOTER",
          frames |-> BlockFrames(SourceChunks)
                       \o (IF footer # "NO_FOOTER" THEN <<Out("FOOTER")>>
                           ELSE << >>)]

\* the outcomes the code can produce with this footer type and abort code
CanHappen(how, footer, abortNow) ==
  /\ how.kind = "footerWriteError" => footer # "NO_FOOTER"
  /\ how.kind = "aborted" => abortNow # "OK"
  /\ how.kind \in {"sent", "footerWriteError"} => abortNow = "OK"
  /\ how.kind \in {"dataWriteError", "sourceReadError"} /\ how.chunk > 1
       => abortNow = "OK"
  /\ how.kind = "headerWriteError" => how.chunk = 1

(***************************************************************************)
(* SEND_BLOCKS (lines 485-514)                                             *)
(***************************************************************************)
\* variant of sendBlocks: a source whose send failed is not added to the
\* history
sendBlocksForgetsFailed(t) ==
  /\ Running(t, "SEND_BLOCKS")
  /\ LET th == threads[t]
         h == histories[t]
     IN
     IF /\ th.threadProtocolVersion >= RECEIVER_PROGRESS_REPORT_VERSION
        /\ ~th.totalSizeSent
        /\ fileDiscoveryFinished
       THEN \* lines 488-491
            /\ Return(t, "SEND_SIZE_CMD", Same)
            /\ UNCHANGED <<histories, queue, faults>>
     ELSE IF queue = << >>
       THEN \* getNextSource has nothing to hand out (lines 493-497)
            /\ fileDiscoveryFinished \/ getThreadAbortCode(t) # "OK"
            /\ Return(t, "SEND_DONE_CMD", Same)
            /\ UNCHANGED <<histories, queue, faults>>
     ELSE \E how \in SendOutcomes :
            LET source == Head(queue)
                transferStats == sendOneByteSource(how, th.footerType)
                \* threadStats_ += transferStats (line 500)
                localErrorCode ==
                  IF transferStats.localErrorCode # "OK"
                    THEN transferStats.localErrorCode ELSE th.localErrorCode
            IN
            /\ CanHappen(how, th.footerType, getThreadAbortCode(t))
            /\ IF how.kind \in {"sent", "aborted"}
                 THEN faults' = faults ELSE Fault
            /\ IF h.globalCheckpoint
                 THEN \* addSource refuses the source (lines 503-509)
                      /\ Return(t, "END", [localErrorCode |-> "CONN_ERROR"])
                      /\ queue' = Append(Tail(queue), source)
                      /\ UNCHANGED histories
                 ELSE /\ histories' =
                           [histories EXCEPT ![t] =
                              IF transferStats.localErrorCode # "OK"
                                THEN @ ELSE addSource(@, source)]
                      /\ queue' = Tail(queue)
                      /\ Return(t,
                           IF transferStats.localErrorCode # "OK"
                             THEN "CHECK_FOR_ABORT" ELSE "SEND_BLOCKS",
                           [localErrorCode |-> localErrorCode])
  /\ UNCHANGED <<abortCode, protoNegotiationStatus, protocolVersion,
                 registered, arrived, funnel, acked, fileChunksReceived,
                 fileDiscoveryFinished, options, probe, checkFailed>>

\* variant of afterSend: only a failure of the socket is looked into
afterSendSocketOnly(localErrorCode) ==
  IF localErrorCode = "SOCKET_WRITE_ERROR" THEN "CHECK_FOR_ABORT"
  ELSE "SEND_BLOCKS"

\* lines 510-513: the state after a source was sent and added
afterSend(localErrorCode) ==
  IF localErrorCode # "OK" THEN "CHECK_FOR_ABORT" ELSE "SEND_BLOCKS"

\* lines 498-513: the source at the head of the queue is sent and handed to
\* the history
sendNextSource(t) ==
  LET th == threads[t]
      h == histories[t]
  IN
  \E how \in SendOutcomes :
    LET source == Head(queue)
        transferStats == sendOneByteSource(how, th.footerType)
        \* threadStats_ += transferStats (line 500)
        localErrorCode ==
          IF transferStats.localErrorCode # "OK"
            THEN transferStats.localErrorCode ELSE th.localErrorCode
    IN
    /\ CanHappen(how, th.footerType, getThreadAbortCode(t))
    /\ IF how.kind \in {"sent", "aborted"}
         THEN faults' = faults ELSE Fault
    /\ Traced(transferStats.frames,
              [numBlocks |-> probe.numBlocks + transferStats.numBlocks,
               dataBytes |-> probe.dataBytes + transferStats.dataBytes])
    /\ IF h.globalCheckpoint
         THEN \* addSource refuses the source (lines 503-509)
              /\ Return(t, "END", [localErrorCode |-> "CONN_ERROR"])
              /\ queue' = Append(Tail(queue), source)
              /\ UNCHANGED histories
         ELSE /\ histories' =
                   [histories EXCEPT ![t] = addSource(@, source)]
              /\ queue' = Tail(queue)
              /\ Return(t, afterSend(transferStats.localErrorCode),
                        [localErrorCode |-> localErrorCode])

\* sendBlocks, lines 485-514; when the queue is empty and the discovery of
\* the files goes on, getNextSource blocks (line 494)
sendBlocks(t) ==
  /\ Running(t, "SEND_BLOCKS")
  /\ LET th == threads[t] IN
     IF /\ th.threadProtocolVersion >= RECEIVER_PROGRESS_REPORT_VERSION
        /\ ~th.totalSizeSent
        /\ fileDiscoveryFinished
       THEN \* lines 488-491
            /\ Return(t, "SEND_SIZE_CMD", Same)
            /\ UNCHANGED <<histories, queue, faults, probe>>
     ELSE IF queue = << >>
       THEN \* getNextSource has nothing to hand out (lines 493-497)
            /\ IF fileDiscoveryFinished \/ getThreadAbortCode(t) # "OK"
                 THEN Return(t, "SEND_DONE_CMD", Same)
                 ELSE threads' = [threads EXCEPT ![t] =
                                    Merge(@, [pc |-> "getNextSource"])]
            /\ UNCHANGED <<histories, queue, faults, probe>>
     ELSE sendNextSource(t)
  /\ UNCHANGED <<abortCode, protoNegotiationStatus, protocolVersion,
                 registered, arrived, funnel, acked, fileChunksReceived,
                 fileDiscoveryFinished, options, checkFailed>>

\* lines 493-513: getNextSource returns to a thread that was blocked in it,
\* with a source that came back to the queue, or with none when the
\* discovery has finished or the transfer is aborted
getNextSource(t) ==
  /\ Alive
  /\ threads[t].pc = "getNextSource"
  /\ IF queue = << >>
       THEN /\ fileDiscoveryFinished \/ getThreadAbortCode(t) # "OK"
            /\ Return(t, "SEND_DONE_CMD", Same)
            /\ UNCHANGED <<histories, queue, faults, probe>>
     ELSE sendNextSource(t)
  /\ UNCHANGED <<abortCode, protoNegotiationStatus, protocolVersion,
                 registered, arrived, funnel, acked, fileChunksReceived,
                 fileDiscoveryFinished, options, checkFailed>>

(***************************************************************************)
(* SEND_SIZE_CMD (lines 648-664)                                           *)
(***************************************************************************)
\* variant of sendSizeCmd: the size is written and not marked as sent
sendSizeCmdNoMark(t) ==
  /\ Running(t, "SEND_SIZE_CMD")
  /\ faults' = faults
  /\ Return(t, "SEND_BLOCKS", Same)
  /\ Traced(<<Out("SIZE")>>, Wire)
  /\ UNCHANGED <<histories, abortCode, protoNegotiationStatus,
                 protocolVersion, registered, arrived, funnel, queue, acked,
                 fileChunksReceived, fileDiscoveryFinished, options,
                 checkFailed>>

\* sendSizeCmd, lines 648-664
sendSizeCmd(t) ==
  /\ Running(t, "SEND_SIZE_CMD")
  /\ \/ /\ Fault
        /\ Return(t, "CHECK_FOR_ABORT",
                  [localErrorCode |-> "SOCKET_WRITE_ERROR"])
        /\ Traced(<< >>, Wire)
     \/ /\ faults' = faults
        /\ Return(t, "SEND_BLOCKS", [totalSizeSent |-> TRUE])
        /\ Traced(<<Out("SIZE")>>, Wire)
  /\ UNCHANGED <<histories, abortCode, protoNegotiationStatus,
                 protocolVersion, registered, arrived, funnel, queue, acked,
                 fileChunksReceived, fileDiscoveryFinished, options,
                 checkFailed>>

(***************************************************************************)
(* SEND_DONE_CMD (lines 666-688)                                           *)
(***************************************************************************)
\* variant of sendDoneCmd: what was sent counts as acknowledged as soon as
\* DONE is written
sendDoneCmdMarks(t) ==
  /\ Running(t, "SEND_DONE_CMD")
  /\ histories' = [histories EXCEPT ![t] = markAllAcknowledged(@)]
  /\ acked' = acked \cup Range(histories[t].log)
  /\ faults' = faults
  /\ Return(t, "READ_RECEIVER_CMD", Same)
  /\ UNCHANGED <<abortCode, protoNegotiationStatus, protocolVersion,
                 registered, arrived, funnel, queue, fileChunksReceived,
                 fileDiscoveryFinished, options, probe, checkFailed>>

\* sendDoneCmd, lines 666-688
sendDoneCmd(t) ==
  /\ Running(t, "SEND_DONE_CMD")
  /\ \/ /\ Fault
        /\ Return(t, "CHECK_FOR_ABORT",
                  [localErrorCode |-> "SOCKET_WRITE_ERROR"])
        /\ Traced(<< >>, Wire)
     \/ /\ faults' = faults
        /\ Return(t, "READ_RECEIVER_CMD", Same)
        /\ Traced(<<Out("DONE")>>, Wire)
  /\ UNCHANGED <<histories, abortCode, protoNegotiationStatus,
                 protocolVersion, registered, arrived, funnel, queue, acked,
                 fileChunksReceived, fileDiscoveryFinished, options,
                 checkFailed>>

(***************************************************************************)
(* CHECK_FOR_ABORT (lines 690-704): `cmd` is the byte read, "none" when    *)
(* the read fails                                                          *)
(***************************************************************************)
checkForAbort(t) ==
  /\ Running(t, "CHECK_FOR_ABORT")
  /\ \E cmd \in {"none", "DONE_CMD", "ABORT_CMD"} :
       /\ IF cmd = "ABORT_CMD" THEN Fault ELSE faults' = faults
       /\ Return(t, IF cmd = "ABORT_CMD" THEN "PROCESS_ABORT_CMD"
                    ELSE "CONNECT", Same)
       /\ Traced(IF cmd = "none" THEN << >> ELSE <<In(cmd)>>, Wire)
  /\ UNCHANGED <<histories, abortCode, protoNegotiationStatus,
                 protocolVersion, registered, arrived, funnel, queue, acked,
                 fileChunksReceived, fileDiscoveryFinished, options,
                 checkFailed>>

(***************************************************************************)
(* readNextReceiverCmd (lines 819-877).  The script is what the socket     *)
(* does during the call: the unacked bytes at entry, for every read of     *)
(* the loop its result (numRead), the read error code and the unacked      *)
(* bytes reported after it, and the result of the final readWithTimeout.   *)
(* The result holds the code returned, the loop iterations made, the       *)
(* result of the last read made and whether the final read was made.       *)
(***************************************************************************)
DrainResult(code, iterations, lastRead, drained) ==
  [code |-> code, iterations |-> iterations, lastRead |-> lastRead,
   drained |-> drained]

\* variant of unackedVerdict: an unchanged count is no reason to give up
unackedVerdictKeepsWaiting(numUnackedBytes, curUnackedBytes) ==
  IF numUnackedBytes < 0 \/ curUnackedBytes < 0 THEN "SOCKET_READ_ERROR"
  ELSE IF ~(numUnackedBytes >= curUnackedBytes) THEN "CHECK_FAILED"
  ELSE IF curUnackedBytes = 0 THEN "drained"
  ELSE "retry"

\* lines 847-862: what the unacked bytes say after a timed-out read
unackedVerdict(numUnackedBytes, curUnackedBytes) ==
  IF numUnackedBytes < 0 \/ curUnackedBytes < 0 THEN "SOCKET_READ_ERROR"
  ELSE IF ~(numUnackedBytes >= curUnackedBytes) THEN "CHECK_FAILED"
  ELSE IF curUnackedBytes = 0 THEN "drained"
  ELSE IF curUnackedBytes = numUnackedBytes THEN "SOCKET_READ_ERROR"
  ELSE "retry"

\* variant of finalRead: the result of readWithTimeout is not looked at
finalReadUnchecked(script, i) ==
  DrainResult("OK", i, script.finalRead, TRUE)

\* lines 863-876: the send buffer is empty, one last read
finalRead(script, i) ==
  DrainResult(IF script.finalRead # 1 THEN "SOCKET_READ_ERROR" ELSE "OK",
              i, script.finalRead, TRUE)

\* lines 823-862: the loop, at its i-th read
RECURSIVE drainLoop(_, _, _, _)
drainLoop(script, i, numUnackedBytes, abortNow) ==
  IF i > Len(script.reads)
    THEN DrainResult("STILL_READING", i - 1, -1, FALSE)
  ELSE
  LET numRead == script.reads[i].numRead
      errCode == script.reads[i].errCode
      curUnackedBytes == script.reads[i].curUnackedBytes
      verdict == unackedVerdict(numUnackedBytes, curUnackedBytes)
  IN
  IF numRead = 1 THEN DrainResult("OK", i, numRead, FALSE)
  ELSE IF abortNow # "OK" THEN DrainResult("ABORT", i, numRead, FALSE)
  ELSE IF numRead = 0
    THEN DrainResult("SOCKET_READ_ERROR", i, numRead, FALSE)
  ELSE IF errCode # "WDT_TIMEOUT"
    THEN DrainResult("SOCKET_READ_ERROR", i, numRead, FALSE)
  ELSE IF verdict = "drained" THEN finalRead(script, i)
  ELSE IF verdict = "retry"
    THEN drainLoop(script, i + 1, curUnackedBytes, abortNow)
  ELSE DrainResult(verdict, i, numRead, FALSE)

readNextReceiverCmd(script, abortNow) ==
  drainLoop(script, 1, script.numUnackedBytes, abortNow)

DrainRead(n, e, c) == [numRead |-> n, errCode |-> e, curUnackedBytes |-> c]

\* what one read of the loop may do
DrainReads ==
  {DrainRead(1, "OK", 0), DrainRead(0, "OK", 0)}
  \cup {DrainRead(-1, e, c) :
          e \in {"WDT_TIMEOUT", "SOCKET_READ_ERROR"}, c \in -1..MaxUnacked}

DrainScripts ==
  [numUnackedBytes : -1..MaxUnacked,
   reads : [1..MaxDrainReads -> DrainReads],
   finalRead : {-1, 0, 1}]

\* the scripts the state machine is run against: the command byte arrives at
\* once, or after the send buffer drained, or never
SomeDrainScripts ==
  {[numUnackedBytes |-> 2,
    reads |-> [i \in 1..MaxDrainReads |-> r],
    finalRead |-> f] :
     r \in {DrainRead(1, "OK", 0), DrainRead(0, "OK", 0),
            DrainRead(-1, "WDT_TIMEOUT", 0), DrainRead(-1, "WDT_TIMEOUT", 2)},
     f \in {-1, 1}}

(***************************************************************************)
(* readAndVerifySpuriousCheckpoint (lines 916-946): `frame` is what was    *)
(* read after the LOCAL_CHECKPOINT command byte.  The handlers record in   *)
(* `probe` the frame they read and the verdict; the record is dropped      *)
(* when the thread comes back to the head of its loop.                     *)
(***************************************************************************)
\* variant of readAndVerifySpuriousCheckpoint: the number of blocks is not
\* looked at
readAndVerifySpuriousCheckpointAnyBlocks(t, frame) ==
  IF ~frame.complete THEN "SOCKET_READ_ERROR"
  ELSE IF /\ frame.decodes
          /\ Len(frame.checkpoints) = 1
          /\ frame.checkpoints[1].port = t
          /\ frame.checkpoints[1].lastBlockReceivedBytes = 0
    THEN "OK"
  ELSE "PROTOCOL_ERROR"

readAndVerifySpuriousCheckpoint(t, frame) ==
  IF ~frame.complete THEN "SOCKET_READ_ERROR"
  ELSE IF /\ frame.decodes
          /\ Len(frame.checkpoints) = 1
          /\ frame.checkpoints[1].port = t
          /\ frame.checkpoints[1].numBlocks = 0
          /\ frame.checkpoints[1].lastBlockReceivedBytes = 0
    THEN "OK"
  ELSE "PROTOCOL_ERROR"

\* variant of spuriousCheckpoint: after a frame that fails the verification
\* the thread reconnects
spuriousCheckpointRetries(t, frame, stay) ==
  LET errCode == readAndVerifySpuriousCheckpoint(t, frame) IN
  /\ probe' = IF Tracing
                THEN [probe EXCEPT
                        !.wire = Append(@, In("LOCAL_CHECKPOINT_CMD"))]
              ELSE [function |-> "readAndVerifySpuriousCheckpoint",
                    thread |-> t, frame |-> frame, result |-> errCode]
  /\ IF errCode = "OK" THEN Return(t, stay, Same)
     ELSE Return(t, "CONNECT", [localErrorCode |-> errCode])

\* the handler of LOCAL_CHECKPOINT_CMD in READ_RECEIVER_CMD (lines 900-910)
\* and in READ_FILE_CHUNKS (lines 731-741), `stay` being the state it is in
spuriousCheckpoint(t, frame, stay) ==
  LET errCode == readAndVerifySpuriousCheckpoint(t, frame) IN
  /\ probe' = IF Tracing
                THEN [probe EXCEPT
                        !.wire = Append(@, In("LOCAL_CHECKPOINT_CMD"))]
              ELSE [function |-> "readAndVerifySpuriousCheckpoint",
                    thread |-> t, frame |-> frame, result |-> errCode]
  /\ IF errCode = "SOCKET_READ_ERROR"
       THEN Return(t, "CONNECT", [localErrorCode |-> "SOCKET_READ_ERROR"])
     ELSE IF errCode = "PROTOCOL_ERROR"
       THEN Return(t, "END", [localErrorCode |-> "PROTOCOL_ERROR"])
     ELSE Return(t, stay, Same)

(***************************************************************************)
(* READ_RECEIVER_CMD (lines 879-914)                                       *)
(***************************************************************************)
\* variant of receiverCmdState: WAIT is taken for DONE
receiverCmdStateWaitIsDone(cmd) ==
  CASE cmd = "ERR_CMD" -> "PROCESS_ERR_CMD"
    [] cmd \in {"WAIT_CMD", "DONE_CMD"} -> "PROCESS_DONE_CMD"
    [] cmd = "ABORT_CMD" -> "PROCESS_ABORT_CMD"
    [] OTHER -> "END"

\* lines 887-913: the state a command leads to, the local checkpoint apart
receiverCmdState(cmd) ==
  CASE cmd = "ERR_CMD" -> "PROCESS_ERR_CMD"
    [] cmd = "WAIT_CMD" -> "PROCESS_WAIT_CMD"
    [] cmd = "DONE_CMD" -> "PROCESS_DONE_CMD"
    [] cmd = "ABORT_CMD" -> "PROCESS_ABORT_CMD"
    [] OTHER -> "END"

\* readReceiverCmd, lines 879-914
readReceiverCmd(t) ==
  /\ Running(t, "READ_RECEIVER_CMD")
  /\ \E script \in SomeDrainScripts :
       LET r == readNextReceiverCmd(script, getThreadAbortCode(t)) IN
       IF r.code # "OK"
         THEN /\ Fault
              /\ Return(t, "CONNECT", [localErrorCode |-> r.code])
              /\ Traced(<< >>, Wire)
         ELSE \E cmd \in ReceiverCmds :
                /\ IF cmd = "DONE_CMD" /\ r.iterations = 1 /\ ~r.drained
                     THEN faults' = faults ELSE Fault
                /\ cmd # "LOCAL_CHECKPOINT_CMD" => Traced(<<In(cmd)>>, Wire)
                /\ IF cmd = "LOCAL_CHECKPOINT_CMD"
                     THEN \E frame \in SpuriousFrames :
                            spuriousCheckpoint(t, frame, "READ_RECEIVER_CMD")
                   ELSE IF receiverCmdState(cmd) = "END"
                     THEN Return(t, "END",
                                 [localErrorCode |-> "PROTOCOL_ERROR"])
                   ELSE Return(t, receiverCmdState(cmd), Same)
  /\ UNCHANGED <<histories, abortCode, protoNegotiationStatus,
                 protocolVersion, registered, arrived, funnel, queue, acked,
                 fileChunksReceived, fileDiscoveryFinished, options,
                 checkFailed>>

(***************************************************************************)
(* PROCESS_DONE_CMD (lines 948-968)                                        *)
(***************************************************************************)
\* variant of processDoneCmd: the thread ends whether the end of the
\* stream is found or not
processDoneCmdEndsAnyway(t) ==
  /\ Running(t, "PROCESS_DONE_CMD")
  /\ histories' = [histories EXCEPT ![t] = markAllAcknowledged(@)]
  /\ acked' = acked \cup Range(histories[t].log)
  /\ \/ /\ Fault
        /\ Return(t, "END", [localErrorCode |-> "SOCKET_READ_ERROR"])
        /\ Traced(<<Out("DONE_ACK")>>, Wire)
     \/ /\ faults' = faults
        /\ Return(t, "END", Same)
        /\ Traced(<<Out("DONE_ACK"), In("EOF")>>, Wire)
  /\ UNCHANGED <<abortCode, protoNegotiationStatus, protocolVersion,
                 registered, arrived, funnel, queue, fileChunksReceived,
                 fileDiscoveryFinished, options, checkFailed>>

processDoneCmd(t) ==
  /\ Running(t, "PROCESS_DONE_CMD")
  /\ histories' = [histories EXCEPT ![t] = markAllAcknowledged(@)]
  /\ acked' = acked \cup Range(histories[t].log)
  /\ \/ \* expectEndOfStream fails (lines 959-965)
        /\ Fault
        /\ Return(t, "CONNECT", [localErrorCode |-> "SOCKET_READ_ERROR"])
        /\ Traced(<<Out("DONE_ACK")>>, Wire)
     \/ /\ faults' = faults
        /\ Return(t, "END", Same)
        /\ Traced(<<Out("DONE_ACK"), In("EOF")>>, Wire)
  /\ UNCHANGED <<abortCode, protoNegotiationStatus, protocolVersion,
                 registered, arrived, funnel, queue, fileChunksReceived,
                 fileDiscoveryFinished, options, checkFailed>>

(***************************************************************************)
(* PROCESS_WAIT_CMD (lines 970-977)                                        *)
(***************************************************************************)
\* variant of processWaitCmd: the log is dropped, nothing is acknowledged
processWaitCmdDrops(t) ==
  /\ Running(t, "PROCESS_WAIT_CMD")
  /\ histories' = [histories EXCEPT ![t] = markAllAcknowledged(@)]
  /\ Return(t, "READ_RECEIVER_CMD", Same)
  /\ UNCHANGED <<abortCode, protoNegotiationStatus, protocolVersion,
                 registered, arrived, funnel, queue, acked,
                 fileChunksReceived, fileDiscoveryFinished, options, probe,
                 checkFailed, faults>>

\* processWaitCmd, lines 970-977
processWaitCmd(t) ==
  /\ Running(t, "PROCESS_WAIT_CMD")
  /\ histories' = [histories EXCEPT ![t] = markAllAcknowledged(@)]
  /\ acked' = acked \cup Range(histories[t].log)
  /\ Return(t, "READ_RECEIVER_CMD", Same)
  /\ UNCHANGED <<abortCode, protoNegotiationStatus, protocolVersion,
                 registered, arrived, funnel, queue, fileChunksReceived,
                 fileDiscoveryFinished, options, probe, checkFailed, faults>>

(***************************************************************************)
(* TransferHistoryController::handleGlobalCheckpoint: the checkpoint goes  *)
(* to the history of its port, which takes it unless it exceeds the        *)
(* sources in flight or goes back before what is acknowledged: only        *)
(* unacknowledged sources are handed back.  `st` holds the histories, the  *)
(* queue and the acknowledged sources.                                     *)
(***************************************************************************)
handleGlobalCheckpoint(st, cp) ==
  LET h == st.histories[cp.port] IN
  IF \/ ~h.inUse
     \/ cp.numBlocks < h.numAcknowledged
     \/ cp.numBlocks > Len(h.log)
  THEN st
  ELSE [histories |-> [st.histories EXCEPT ![cp.port] = setCheckpoint(h, cp, TRUE)],
        queue |-> st.queue \o BeyondCheckpoint(h, cp),
        acked |-> st.acked \cup Range(SubSeq(h.log, 1, cp.numBlocks))]

\* variant of handleGlobalCheckpoints: the first checkpoint only is
\* dispatched
handleGlobalCheckpointsFirstOnly(st, checkpoints) ==
  IF checkpoints = << >> THEN st
  ELSE handleGlobalCheckpoint(st, Head(checkpoints))

\* lines 1011-1014: every checkpoint of the list is dispatched, in order
RECURSIVE handleGlobalCheckpoints(_, _)
handleGlobalCheckpoints(st, checkpoints) ==
  IF checkpoints = << >> THEN st
  ELSE handleGlobalCheckpoints(handleGlobalCheckpoint(st, Head(checkpoints)),
                               Tail(checkpoints))

(***************************************************************************)
(* PROCESS_ERR_CMD (lines 979-1016)                                        *)
(***************************************************************************)
\* the lists of global checkpoints a peer may send: those of
\* CheckpointFrames and the lists of two different checkpoints
ErrFrames ==
  CheckpointFrames
  \cup {Frame(TRUE, TRUE, <<c, d>>) :
          c, d \in {x \in Checkpoints :
                      x.lastBlockSeqId = 0 /\ x.lastBlockReceivedBytes = 0}}

\* the frame PROCESS_ERR_CMD has read is kept when the handler is applied on
\* its own
FrameRead(frame) ==
  probe' = IF probe.function = "processErrCmd"
             THEN [function |-> "processErrCmd", frame |-> frame]
           ELSE probe

\* processErrCmd, lines 979-1016
processErrCmd(t) ==
  /\ Running(t, "PROCESS_ERR_CMD")
  /\ LET marked == [histories |->
                      [histories EXCEPT ![t] = markAllAcknowledged(@)],
                    queue |-> queue,
                    acked |-> acked \cup Range(histories[t].log)]
     IN
     \/ \* the length or the list is read short (lines 985-1000)
        /\ Fault
        /\ Return(t, "CONNECT", [localErrorCode |-> "SOCKET_READ_ERROR"])
        /\ histories' = marked.histories
        /\ acked' = marked.acked
        /\ FrameRead(ShortFrame)
        /\ UNCHANGED queue
     \/ \E frame \in ErrFrames :
          /\ FrameRead(frame)
          /\ IF ~frame.decodes
               THEN \* lines 1004-1010
                    /\ Fault
                    /\ Return(t, "END", [localErrorCode |-> "PROTOCOL_ERROR"])
                    /\ histories' = marked.histories
                    /\ acked' = marked.acked
                    /\ UNCHANGED queue
               ELSE \* lines 1011-1015
                    LET st == handleGlobalCheckpoints(marked,
                                                      frame.checkpoints)
                    IN
                    /\ faults' = faults
                    /\ Return(t, "SEND_BLOCKS", Same)
                    /\ histories' = st.histories
                    /\ queue' = st.queue
                    /\ acked' = st.acked
  /\ UNCHANGED <<abortCode, protoNegotiationStatus, protocolVersion,
                 registered, arrived, funnel, fileChunksReceived,
                 fileDiscoveryFinished, options, checkFailed>>

(***************************************************************************)
(* PROCESS_ABORT_CMD (lines 1018-1056)                                     *)
(***************************************************************************)
RemoteErrors == {"VERSION_MISMATCH", "ABORT"}

\* what Protocol::decodeAbort makes of the kAbortLength bytes
AbortFrame(negotiatedProtocol, remoteError) ==
  [complete |-> TRUE, negotiatedProtocol |-> negotiatedProtocol,
   remoteError |-> remoteError]

\* the read of the abort frame came short
ShortAbort == [complete |-> FALSE, negotiatedProtocol |-> 0,
               remoteError |-> "OK"]

\* the frame PROCESS_ABORT_CMD has read is kept when the handler is applied
\* on its own
AbortRead(frame) ==
  probe' = IF probe.function = "processAbortCmd"
             THEN [function |-> "processAbortCmd", frame |-> frame]
           ELSE probe

\* variant of abortCmdReadShort: the abort is handed to the parent before
\* the thread ends
abortCmdReadShortAborts(t) ==
  /\ Fault
  /\ Return(t, "END", [localErrorCode |-> "ABORT"])
  /\ abortCode' = abort("ABORT")
  /\ AbortRead(ShortAbort)

\* lines 1021-1029: the abort frame is read short
abortCmdReadShort(t) ==
  /\ Fault
  /\ Return(t, "END", [localErrorCode |-> "ABORT"])
  /\ UNCHANGED abortCode
  /\ AbortRead(ShortAbort)

\* variant of acceptsProtocol: whatever the peer proposes is taken
acceptsProtocolAlways(negotiatedProtocol, threadProtocolVersion) == TRUE

\* lines 1044-1045: the sender can support the version the peer proposes
acceptsProtocol(negotiatedProtocol, threadProtocolVersion) ==
  negotiateProtocol(negotiatedProtocol, threadProtocolVersion)
    = negotiatedProtocol

processAbortCmd(t) ==
  /\ Running(t, "PROCESS_ABORT_CMD")
  /\ \/ abortCmdReadShort(t)
     \/ \E negotiatedProtocol \in PeerVersions, remoteError \in RemoteErrors :
          LET accepted ==
                /\ remoteError = "VERSION_MISMATCH"
                /\ acceptsProtocol(negotiatedProtocol,
                                   threads[t].threadProtocolVersion)
          IN
          /\ faults' = faults
          /\ abortCode' = abort(remoteError)
          /\ AbortRead(AbortFrame(negotiatedProtocol, remoteError))
          /\ IF accepted
               THEN Return(t, "PROCESS_VERSION_MISMATCH",
                      [localErrorCode |-> "ABORT",
                       remoteErrorCode |-> remoteError,
                       negotiatedProtocol |-> negotiatedProtocol])
               ELSE Return(t, "END",
                      [localErrorCode |-> "ABORT",
                       remoteErrorCode |->
                         IF remoteError = "VERSION_MISMATCH"
                           THEN "VERSION_INCOMPATIBLE" ELSE remoteError])
  /\ UNCHANGED <<histories, protoNegotiationStatus, protocolVersion,
                 registered, arrived, funnel, queue, acked,
                 fileChunksReceived, fileDiscoveryFinished, options,
                 checkFailed>>

(***************************************************************************)
(* READ_FILE_CHUNKS (lines 706-817).  The chunk list arrives in segments:  *)
(* for each the script tells whether the 4-byte length was read, the       *)
(* length toRead it announced, whether that many bytes were read, whether  *)
(* they decode and how many entries they add to the list.                  *)
(***************************************************************************)
ChunksResult(code, next, delivered, largest) ==
  [code |-> code, next |-> next, delivered |-> delivered,
   largestRead |-> largest]

\* variant of chunkLoop: the list is complete as soon as it has numFiles
\* entries or more
RECURSIVE chunkLoopAtLeast(_, _, _, _)
chunkLoopAtLeast(script, i, numFileChunks, largest) ==
  IF numFileChunks >= script.numFiles
    THEN ChunksResult("OK", "SEND_BLOCKS", TRUE, largest)
  ELSE IF i > Len(script.segments) \/ ~script.segments[i].lengthRead
    THEN ChunksResult("SOCKET_READ_ERROR", "CHECK_FOR_ABORT", FALSE, largest)
  ELSE IF ~script.segments[i].dataRead
    THEN ChunksResult("SOCKET_READ_ERROR", "CHECK_FOR_ABORT", FALSE, largest)
  ELSE IF ~script.segments[i].decodes
    THEN ChunksResult("PROTOCOL_ERROR", "END", FALSE, largest)
  ELSE chunkLoopAtLeast(script, i + 1,
                        numFileChunks + script.segments[i].entries, largest)

\* variant of readChunkList
readChunkListAtLeast(script) == chunkLoopAtLeast(script, 1, 0, 0)

\* lines 761-803: the loop that reads the segments of the list
RECURSIVE chunkLoop(_, _, _, _)
chunkLoop(script, i, numFileChunks, largest) ==
  IF numFileChunks > script.numFiles
    THEN ChunksResult("PROTOCOL_ERROR", "END", FALSE, largest)
  ELSE IF numFileChunks = script.numFiles
    THEN ChunksResult("OK", "SEND_BLOCKS", TRUE, largest)
  ELSE IF i > Len(script.segments) \/ ~script.segments[i].lengthRead
    THEN ChunksResult("SOCKET_READ_ERROR", "CHECK_FOR_ABORT", FALSE, largest)
  ELSE IF ~script.segments[i].dataRead
    THEN ChunksResult("SOCKET_READ_ERROR", "CHECK_FOR_ABORT", FALSE, largest)
  ELSE IF ~script.segments[i].decodes
    THEN ChunksResult("PROTOCOL_ERROR", "END", FALSE,
                      IF script.segments[i].toRead > largest
                        THEN script.segments[i].toRead ELSE largest)
  ELSE chunkLoop(script, i + 1, numFileChunks + script.segments[i].entries,
                 IF script.segments[i].toRead > largest
                   THEN script.segments[i].toRead ELSE largest)

readChunkList(script) == chunkLoop(script, 1, 0, 0)

\* lines 755-816: the list is read and, when it is complete, handed to the
\* sender (setFileChunksInfo) and acknowledged
chunksCmd(script, ackWritten) ==
  LET r == readChunkList(script) IN
  IF r.code # "OK"
    THEN [code |-> r.code, next |-> r.next, delivered |-> FALSE,
          ack |-> FALSE]
  ELSE IF ~ackWritten
    THEN [code |-> "SOCKET_WRITE_ERROR", next |-> "CHECK_FOR_ABORT",
          delivered |-> TRUE, ack |-> FALSE]
  ELSE [code |-> "OK", next |-> "SEND_BLOCKS", delivered |-> TRUE,
        ack |-> TRUE]

ChunkSegments ==
  [lengthRead : BOOLEAN, toRead : 0..3, dataRead : BOOLEAN,
   decodes : BOOLEAN, entries : 0..2]

\* the scripts the state machine is run against: one segment repeated, which
\* is a good one or has one thing wrong
SomeChunkScripts ==
  {[bufSize |-> 2, numFiles |-> n, segments |-> <<seg, seg>>] :
     n \in 0..2,
     seg \in {g \in ChunkSegments :
                /\ g.toRead = 2
                /\ g.entries \in 1..2
                /\ ~g.lengthRead => g.dataRead /\ g.decodes /\ g.entries = 1
                /\ ~g.dataRead => g.decodes /\ g.entries = 1
                /\ ~g.decodes => g.entries = 1}}

\* variant of afterAckCmd: ACK is taken for granted
afterAckCmdTrusted(isFileChunksReceived) == "SEND_BLOCKS"

\* lines 722-730: the state after ACK_CMD was read
afterAckCmd(isFileChunksReceived) ==
  IF ~isFileChunksReceived THEN "END" ELSE "SEND_BLOCKS"

\* readFileChunks, lines 706-817
readFileChunks(t) ==
  /\ Running(t, "READ_FILE_CHUNKS")
  /\ \/ \* the command byte cannot be read (lines 708-713)
        /\ Fault
        /\ Return(t, "CHECK_FOR_ABORT",
                  [localErrorCode |-> "SOCKET_READ_ERROR"])
        /\ Traced(<< >>, Wire)
        /\ UNCHANGED fileChunksReceived
     \/ \E cmd \in ReceiverCmds \ {"CHUNKS_CMD"} :
          /\ IF cmd = "ACK_CMD" /\ fileChunksReceived
               THEN faults' = faults ELSE Fault
          /\ UNCHANGED fileChunksReceived
          /\ cmd # "LOCAL_CHECKPOINT_CMD" => Traced(<<In(cmd)>>, Wire)
          /\ CASE cmd = "ABORT_CMD" ->
                    Return(t, "PROCESS_ABORT_CMD", Same)
               [] cmd = "WAIT_CMD" ->
                    Return(t, "READ_FILE_CHUNKS", Same)
               [] cmd = "ACK_CMD" ->
                    IF afterAckCmd(fileChunksReceived) = "END"
                      THEN Return(t, "END",
                                  [localErrorCode |-> "PROTOCOL_ERROR"])
                      ELSE Return(t, afterAckCmd(fileChunksReceived), Same)
               [] cmd = "LOCAL_CHECKPOINT_CMD" ->
                    \E frame \in SpuriousFrames :
                      spuriousCheckpoint(t, frame, "READ_FILE_CHUNKS")
               [] OTHER ->
                    Return(t, "END", [localErrorCode |-> "PROTOCOL_ERROR"])
     \/ \* CHUNKS_CMD, but its parameters are read short (lines 747-753)
        /\ Fault
        /\ Return(t, "CHECK_FOR_ABORT",
                  [localErrorCode |-> "SOCKET_READ_ERROR"])
        /\ Traced(<<In("CHUNKS_CMD")>>, Wire)
        /\ UNCHANGED fileChunksReceived
     \/ \* CHUNKS_CMD and the chunk list (lines 755-817)
        \E script \in SomeChunkScripts, ackWritten \in BOOLEAN :
          LET r == chunksCmd(script, ackWritten) IN
          /\ IF r.code = "OK" THEN faults' = faults ELSE Fault
          /\ ~r.delivered => ackWritten
          /\ fileChunksReceived' = (fileChunksReceived \/ r.delivered)
          /\ Traced(<<In("CHUNKS_CMD")>>
                      \o (IF r.ack THEN <<Out("ACK")>> ELSE << >>), Wire)
          /\ IF r.code # "OK"
               THEN Return(t, r.next, [localErrorCode |-> r.code])
             ELSE Return(t, r.next, Same)
  /\ UNCHANGED <<histories, abortCode, protoNegotiationStatus,
                 protocolVersion, registered, arrived, funnel, queue, acked,
                 fileDiscoveryFinished, options, checkFailed>>

(***************************************************************************)
(* PROCESS_VERSION_MISMATCH (lines 1058-1131), in the steps at which       *)
(* the thread meets its siblings                                           *)
(***************************************************************************)
\* the handler changes only the fields in ch and stays inside the handler
Step(t, ch) == threads' = [threads EXCEPT ![t] = Merge(@, ch)]

\* variant of processVersionMismatch: a thread that finds the negotiation
\* resolved joins the barrier again
processVersionMismatchRejoins(t) ==
  /\ Running(t, "PROCESS_VERSION_MISMATCH")
  /\ LET negotiationStatus == protoNegotiationStatus IN
     IF threads[t].localErrorCode # "ABORT"
       THEN /\ checkFailed' = "localErrorCode == ABORT"
            /\ UNCHANGED <<threads, arrived>>
     ELSE IF negotiationStatus = "V_MISMATCH_FAILED"
       THEN /\ checkFailed' = "negotiationStatus != V_MISMATCH_FAILED"
            /\ UNCHANGED <<threads, arrived>>
     ELSE /\ Step(t, [pc |-> "barrier"])
          /\ arrived' = arrived \cup {t}
          /\ UNCHANGED checkFailed
  /\ UNCHANGED <<histories, abortCode, protoNegotiationStatus,
                 protocolVersion, registered, funnel, queue, acked,
                 fileChunksReceived, fileDiscoveryFinished, options, probe,
                 faults>>

\* lines 1058-1073: the entry checks, then the thread hits the barrier
processVersionMismatch(t) ==
  /\ Running(t, "PROCESS_VERSION_MISMATCH")
  /\ LET negotiationStatus == protoNegotiationStatus IN
     IF threads[t].localErrorCode # "ABORT"
       THEN /\ checkFailed' = "localErrorCode == ABORT"
            /\ UNCHANGED <<threads, arrived>>
     ELSE IF negotiationStatus = "V_MISMATCH_FAILED"
       THEN /\ checkFailed' = "negotiationStatus != V_MISMATCH_FAILED"
            /\ UNCHANGED <<threads, arrived>>
     ELSE IF negotiationStatus = "V_MISMATCH_RESOLVED"
       THEN /\ Return(t, "END", Same)
            /\ UNCHANGED <<checkFailed, arrived>>
     ELSE /\ Step(t, [pc |-> "barrier"])
          /\ arrived' = arrived \cup {t}
          /\ UNCHANGED checkFailed
  /\ UNCHANGED <<histories, abortCode, protoNegotiationStatus,
                 protocolVersion, registered, funnel, queue, acked,
                 fileChunksReceived, fileDiscoveryFinished, options, probe,
                 faults>>

\* variant of versionMismatchBarrier: execute() returns without waiting for
\* the other threads
versionMismatchBarrierNoWait(t) ==
  /\ Alive
  /\ threads[t].pc = "barrier"
  /\ threads' = [threads EXCEPT ![t] = Merge(@, [pc |-> "funnel"])]
  /\ UNCHANGED <<histories, abortCode, protoNegotiationStatus,
                 protocolVersion, registered, arrived, funnel, queue, acked,
                 fileChunksReceived, fileDiscoveryFinished, options, probe,
                 checkFailed, faults>>

\* lines 1073-1075: barrier->execute() returns
versionMismatchBarrier(t) ==
  /\ Alive
  /\ threads[t].pc = "barrier"
  /\ BarrierComplete
  /\ Step(t, [pc |-> "funnel"])
  /\ UNCHANGED <<histories, abortCode, protoNegotiationStatus,
                 protocolVersion, registered, arrived, funnel, queue, acked,
                 fileChunksReceived, fileDiscoveryFinished, options, probe,
                 checkFailed, faults>>

\* variant of versionMismatchFunnel: the funnel hands FUNNEL_START to every
\* thread that asks
versionMismatchFunnelOpen(t) ==
  /\ Alive
  /\ threads[t].pc = "funnel"
  /\ threads' = [threads EXCEPT ![t] = Merge(@, [pc |-> "funnelStart"])]
  /\ UNCHANGED <<histories, abortCode, protoNegotiationStatus,
                 protocolVersion, registered, arrived, funnel, queue, acked,
                 fileChunksReceived, fileDiscoveryFinished, options, probe,
                 checkFailed, faults>>

\* lines 1076-1080 and 1113-1128: one round of the funnel loop; a thread
\* that finds the funnel in progress waits until it is notified
versionMismatchFunnel(t) ==
  /\ Alive
  /\ threads[t].pc = "funnel"
  /\ funnel # "FUNNEL_PROGRESS"
  /\ IF funnel = "FUNNEL_START"
       THEN /\ funnel' = "FUNNEL_PROGRESS"
            /\ Step(t, [pc |-> "funnelStart"])
            /\ UNCHANGED checkFailed
     ELSE IF protoNegotiationStatus = "V_MISMATCH_WAIT"
       THEN /\ checkFailed' = "negotiationStatus != V_MISMATCH_WAIT"
            /\ UNCHANGED <<threads, funnel>>
     ELSE IF protoNegotiationStatus = "V_MISMATCH_FAILED"
       THEN /\ Return(t, "END", Same)
            /\ UNCHANGED <<checkFailed, funnel>>
     ELSE /\ Return(t, "CONNECT",
                    [threadProtocolVersion |-> protocolVersion,
                     remoteErrorCode |-> "OK"])
          /\ UNCHANGED <<checkFailed, funnel>>
  /\ UNCHANGED <<histories, abortCode, protoNegotiationStatus,
                 protocolVersion, registered, arrived, queue, acked,
                 fileChunksReceived, fileDiscoveryFinished, options, probe,
                 faults>>

\* line 1081: the winner first marks the negotiation as failed
funnelStart(t) ==
  /\ Alive
  /\ threads[t].pc = "funnelStart"
  /\ protoNegotiationStatus' = "V_MISMATCH_FAILED"
  /\ Step(t, [pc |-> "funnelResolve"])
  /\ UNCHANGED <<histories, abortCode, protocolVersion, registered, arrived,
                 funnel, queue, acked, fileChunksReceived,
                 fileDiscoveryFinished, options, probe, checkFailed, faults>>

\* lines 1086-1099: the protocol the threads agree on, 0 when none of them
\* negotiated one, unless two of them negotiated different ones
RECURSIVE agreedProtocol(_, _)
agreedProtocol(i, negotiatedProtocol) ==
  IF i > NumThreads
    THEN [conflict |-> FALSE, negotiatedProtocol |-> negotiatedProtocol]
  ELSE IF threads[i].negotiatedProtocol > 0
    THEN IF negotiatedProtocol > 0
            /\ negotiatedProtocol # threads[i].negotiatedProtocol
           THEN [conflict |-> TRUE, negotiatedProtocol |-> negotiatedProtocol]
           ELSE agreedProtocol(i + 1, threads[i].negotiatedProtocol)
  ELSE agreedProtocol(i + 1, negotiatedProtocol)

\* lines 1082-1108: the winner resolves the mismatch
funnelResolve(t) ==
  /\ Alive
  /\ threads[t].pc = "funnelResolve"
  /\ \/ \* handleVersionMismatch fails (lines 1082-1085)
        /\ faults' = faults
        /\ funnel' = "FUNNEL_END"
        /\ Return(t, "END", Same)
        /\ UNCHANGED <<protocolVersion, protoNegotiationStatus, checkFailed>>
     \/ /\ faults' = faults
        /\ LET agreed == agreedProtocol(1, 0)
               negotiatedProtocol == agreed.negotiatedProtocol
           IN
           IF agreed.conflict
             THEN \* lines 1090-1096
                  /\ funnel' = "FUNNEL_END"
                  /\ Return(t, "END", Same)
                  /\ UNCHANGED <<protocolVersion, protoNegotiationStatus,
                                 checkFailed>>
           ELSE IF ~(negotiatedProtocol > 0)
             THEN \* line 1100
                  /\ checkFailed' = "negotiatedProtocol > 0"
                  /\ UNCHANGED <<threads, funnel, protocolVersion,
                                 protoNegotiationStatus>>
           ELSE \* lines 1104-1108
                /\ protocolVersion' = negotiatedProtocol
                /\ Step(t, [pc |-> "funnelClear",
                            threadProtocolVersion |-> negotiatedProtocol,
                            footerType |-> FooterTypeFor(negotiatedProtocol),
                            remoteErrorCode |-> "OK"])
                /\ protoNegotiationStatus' = "V_MISMATCH_RESOLVED"
                /\ UNCHANGED <<funnel, checkFailed>>
  /\ UNCHANGED <<histories, abortCode, registered, arrived, queue, acked,
                 fileChunksReceived, fileDiscoveryFinished, options, probe>>

\* line 1109: clearAbort
funnelClear(t) ==
  /\ Alive
  /\ threads[t].pc = "funnelClear"
  /\ abortCode' = "OK"
  /\ Step(t, [pc |-> "funnelNotify"])
  /\ UNCHANGED <<histories, protoNegotiationStatus, protocolVersion,
                 registered, arrived, funnel, queue, acked,
                 fileChunksReceived, fileDiscoveryFinished, options, probe,
                 checkFailed, faults>>

\* variant of funnelNotify: the winner keeps the version it had
funnelNotifyOldVersion(t) ==
  /\ Alive
  /\ threads[t].pc = "funnelNotify"
  /\ funnel' = "FUNNEL_END"
  /\ Return(t, "CONNECT", [threadProtocolVersion |-> ProtocolVersion])
  /\ UNCHANGED <<histories, abortCode, protoNegotiationStatus,
                 protocolVersion, registered, arrived, queue, acked,
                 fileChunksReceived, fileDiscoveryFinished, options, probe,
                 checkFailed, faults>>

\* variant of funnelNotify: the winner goes back to CONNECT and leaves the
\* funnel in progress
funnelNotifyForgets(t) ==
  /\ Alive
  /\ threads[t].pc = "funnelNotify"
  /\ funnel' = funnel
  /\ Return(t, "CONNECT", Same)
  /\ UNCHANGED <<histories, abortCode, protoNegotiationStatus,
                 protocolVersion, registered, arrived, queue, acked,
                 fileChunksReceived, fileDiscoveryFinished, options, probe,
                 checkFailed, faults>>

\* lines 1110-1111: notifySuccess, and back to CONNECT
funnelNotify(t) ==
  /\ Alive
  /\ threads[t].pc = "funnelNotify"
  /\ funnel' = "FUNNEL_END"
  /\ Return(t, "CONNECT", Same)
  /\ UNCHANGED <<histories, abortCode, protoNegotiationStatus,
                 protocolVersion, registered, arrived, queue, acked,
                 fileChunksReceived, fileDiscoveryFinished, options, probe,
                 checkFailed, faults>>

\* somebody outside the threads aborts the transfer
externalAbort ==
  /\ Alive
  /\ Fault
  /\ abortCode' = abort("ABORT")
  /\ UNCHANGED <<threads, histories, protoNegotiationStatus, protocolVersion,
                 registered, arrived, funnel, queue, acked,
                 fileChunksReceived, fileDiscoveryFinished, options, probe,
                 checkFailed>>

\* the directory thread finishes the discovery of the files
finishDiscovery ==
  /\ Alive
  /\ ~fileDiscoveryFinished
  /\ fileDiscoveryFinished' = TRUE
  /\ UNCHANGED <<threads, histories, abortCode, protoNegotiationStatus,
                 protocolVersion, registered, arrived, funnel, queue, acked,
                 fileChunksReceived, options, probe, checkFailed, faults>>

ThreadStep(t) ==
  \/ start(t)
  \/ loopCheck(t)
  \/ exit(t)
  \/ connect(t)
  \/ readLocalCheckPoint(t)
  \/ sendSettings(t)
  \/ sendBlocks(t)
  \/ getNextSource(t)
  \/ sendSizeCmd(t)
  \/ sendDoneCmd(t)
  \/ checkForAbort(t)
  \/ readReceiverCmd(t)
  \/ processDoneCmd(t)
  \/ processWaitCmd(t)
  \/ processErrCmd(t)
  \/ processAbortCmd(t)
  \/ readFileChunks(t)
  \/ processVersionMismatch(t)
  \/ versionMismatchBarrier(t)
  \/ versionMismatchFunnel(t)
  \/ funnelStart(t)
  \/ funnelResolve(t)
  \/ funnelClear(t)
  \/ funnelNotify(t)

Next ==
  \/ \E t \in Threads : ThreadStep(t)
  \/ finishDiscovery
  \/ externalAbort

Spec == Init /\ [][Next]_vars

\* every thread is a thread of the operating system and is scheduled again
\* and again, and the directory thread comes to the end of the discovery
Fairness ==
  /\ \A t \in Threads : WF_vars(ThreadStep(t))
  /\ WF_vars(finishDiscovery)

\* a transfer over all the ports whose threads are scheduled fairly
SpecFair == InitFair /\ [][Next]_vars /\ Fairness

SpecOnePort == InitOnePort /\ [][Next]_vars

SpecPath == InitPath /\ [][Next]_vars

SpecReconnect == InitReconnect /\ [][Next]_vars

(***************************************************************************)
(* readNextReceiverCmd applied on its own to every script of the socket    *)
(***************************************************************************)
\* no thread runs
Idle ==
  /\ options \in {o \in Options : o.ports = 1 /\ ~o.sendFileChunks}
  /\ threads = [t \in Threads |-> Merge(NewThread, [pc |-> "unused"])]
  /\ histories = [t \in Threads |-> Merge(NewHistory, [inUse |-> FALSE])]
  /\ abortCode = "OK"
  /\ protoNegotiationStatus = "V_MISMATCH_WAIT"
  /\ protocolVersion = ProtocolVersion
  /\ registered = {}
  /\ arrived = {}
  /\ funnel = "FUNNEL_START"
  /\ queue = << >>
  /\ acked = {}
  /\ fileChunksReceived = FALSE
  /\ fileDiscoveryFinished = FALSE
  /\ checkFailed = "none"
  /\ faults = 0

InitDrain ==
  /\ Idle
  /\ probe \in [function : {"readNextReceiverCmd"}, script : DrainScripts,
                abortNow : {"OK", "ABORT"}, applied : {FALSE},
                result : {DrainResult("none", 0, 0, FALSE)}]

applyReadNextReceiverCmd ==
  /\ probe.function = "readNextReceiverCmd"
  /\ ~probe.applied
  /\ probe' = [probe EXCEPT
       !.applied = TRUE,
       !.result = readNextReceiverCmd(probe.script, probe.abortNow)]
  /\ UNCHANGED <<threads, histories, abortCode, protoNegotiationStatus,
                 protocolVersion, registered, arrived, funnel, queue, acked,
                 fileChunksReceived, fileDiscoveryFinished, options,
                 checkFailed, faults>>

NextDrain == applyReadNextReceiverCmd

SpecDrain == InitDrain /\ [][NextDrain]_vars

(***************************************************************************)
(* connectToReceiver applied on its own to every run of answers of the     *)
(* socket, for every max_retries, with the abort code set or not           *)
(***************************************************************************)
InitConnect ==
  /\ Idle
  /\ probe \in [function : {"connectToReceiver"},
                 attempts : [1..MaxConnectAttempts -> ConnectResults],
                 max_retries : -1..MaxConnectAttempts,
                 abortNow : {"OK", "ABORT"},
                 applied : {FALSE},
                 result : {[code |-> "none", connectAttempts |-> 0,
                            sleeps |-> 0]}]

applyConnectToReceiver ==
  /\ probe.function = "connectToReceiver"
  /\ ~probe.applied
  /\ probe' = [probe EXCEPT
       !.applied = TRUE,
       !.result = connectToReceiver(probe.attempts, probe.max_retries,
                                    probe.abortNow)]
  /\ UNCHANGED <<threads, histories, abortCode, protoNegotiationStatus,
                 protocolVersion, registered, arrived, funnel, queue, acked,
                 fileChunksReceived, fileDiscoveryFinished, options,
                 checkFailed, faults>>

NextConnect == applyConnectToReceiver

SpecConnect == InitConnect /\ [][NextConnect]_vars

(***************************************************************************)
(* The head of the loop of start() applied on its own: getThreadAbortCode  *)
(* and the abort check, for every abort code of the parent, with the flag  *)
(* of the history set or not, in every state a handler returns             *)
(***************************************************************************)
\* the abort codes the parent holds: none, an abort of the application or
\* of the peer, a version mismatch, an error of a thread
AbortCodes == {"OK", "ABORT", "VERSION_MISMATCH", "PROTOCOL_ERROR"}

\* the states a handler is run for (stateMap_, lines 296-303)
LoopStates == SenderState \ {"END"}

\* the local error codes a thread comes to the head of the loop with
LoopErrorCodes == {"OK", "SOCKET_READ_ERROR", "SOCKET_WRITE_ERROR"}

InitLoopHead ==
  /\ Idle
  /\ probe \in [function : {"getThreadAbortCode"},
                 globalAbortCode : AbortCodes,
                 isGlobalCheckpointReceived : BOOLEAN,
                 thread : {Merge(NewThread, [pc |-> "check", state |-> st,
                                             localErrorCode |-> e]) :
                             st \in LoopStates, e \in LoopErrorCodes},
                 applied : {FALSE},
                 abortCode : {"none"},
                 result : {NewThread}]

applyLoopHead ==
  /\ probe.function = "getThreadAbortCode"
  /\ ~probe.applied
  /\ LET code == threadAbortCode(probe.globalAbortCode,
                                 probe.isGlobalCheckpointReceived)
     IN probe' = [probe EXCEPT
          !.applied = TRUE,
          !.abortCode = code,
          !.result = loopHead(code, probe.thread)]
  /\ UNCHANGED <<threads, histories, abortCode, protoNegotiationStatus,
                 protocolVersion, registered, arrived, funnel, queue, acked,
                 fileChunksReceived, fileDiscoveryFinished, options,
                 checkFailed, faults>>

NextLoopHead == applyLoopHead

SpecLoopHead == InitLoopHead /\ [][NextLoopHead]_vars

(***************************************************************************)
(* connect applied on its own to a thread that comes to CONNECT for the    *)
(* first time or after an error, under every abort code of the parent      *)
(***************************************************************************)
\* the local error codes a thread comes back to CONNECT with
ReconnectErrorCodes == {"SOCKET_READ_ERROR", "SOCKET_WRITE_ERROR", "ABORT"}

\* the threads about to run connect: a new thread, or a thread that had a
\* socket and comes back with an error
AtConnect ==
  {Merge(NewThread, [pc |-> "run", state |-> "CONNECT"])} \cup
  {Merge(NewThread, [pc |-> "run", state |-> "CONNECT",
                     localErrorCode |-> e, hasSocket |-> TRUE,
                     numReconnectWithoutProgress |-> n,
                     totalSizeSent |-> z]) :
     e \in ReconnectErrorCodes, n \in 0..MaxTransferRetries, z \in BOOLEAN}

InitAtConnect ==
  /\ options \in {o \in Options : o.ports = 1}
  /\ \E th \in AtConnect :
       threads = [t \in Threads |->
         IF t = 1 THEN th ELSE Merge(NewThread, [pc |-> "unused"])]
  /\ \E g \in BOOLEAN :
       histories = [t \in Threads |->
         IF t = 1 THEN Merge(NewHistory, [globalCheckpoint |-> g])
         ELSE Merge(NewHistory, [inUse |-> FALSE])]
  /\ abortCode \in AbortCodes
  /\ protoNegotiationStatus = "V_MISMATCH_WAIT"
  /\ protocolVersion = ProtocolVersion
  /\ registered = {1}
  /\ arrived = {}
  /\ funnel = "FUNNEL_START"
  /\ queue = << >>
  /\ acked = {}
  /\ fileChunksReceived = FALSE
  /\ fileDiscoveryFinished = FALSE
  /\ checkFailed = "none"
  /\ faults = MaxFaults
  /\ probe = NoProbe

NextAtConnect == \E t \in Threads : connect(t)

SpecAtConnect == InitAtConnect /\ [][NextAtConnect]_vars

(***************************************************************************)
(* The CHUNKS branch of readFileChunks applied on its own to every list    *)
(* of segments                                                             *)
(***************************************************************************)
\* the segments of a list, and the entries a CHUNKS command announces
MaxSegments == 2
MaxNumFiles == 2

AllChunkScripts ==
  {[bufSize |-> 2, numFiles |-> n, segments |-> segs] :
     n \in 0..MaxNumFiles,
     segs \in [1..MaxSegments -> {g \in ChunkSegments : g.toRead = 2}]}

InitChunks ==
  /\ Idle
  /\ probe \in [function : {"readFileChunks"},
                 script : AllChunkScripts,
                 ackWritten : BOOLEAN,
                 applied : {FALSE},
                 result : {[code |-> "none", next |-> "none",
                            delivered |-> FALSE, ack |-> FALSE]}]

applyChunksCmd ==
  /\ probe.function = "readFileChunks"
  /\ ~probe.applied
  /\ probe' = [probe EXCEPT
       !.applied = TRUE,
       !.result = chunksCmd(probe.script, probe.ackWritten)]
  /\ UNCHANGED <<threads, histories, abortCode, protoNegotiationStatus,
                 protocolVersion, registered, arrived, funnel, queue, acked,
                 fileChunksReceived, fileDiscoveryFinished, options,
                 checkFailed, faults>>

NextChunks == applyChunksCmd

SpecChunks == InitChunks /\ [][NextChunks]_vars

(***************************************************************************)
(* The loop that reads the chunk list applied on its own to lists whose    *)
(* segments announce any length, within the buffer or beyond it            *)
(***************************************************************************)
\* the buffer size the CHUNKS command announces
ChunkBufSize == 2

ChunkReadScripts ==
  {[bufSize |-> ChunkBufSize, numFiles |-> n, segments |-> segs] :
     n \in 0..MaxNumFiles, segs \in [1..MaxSegments -> ChunkSegments]}

InitChunkReads ==
  /\ Idle
  /\ probe \in [function : {"readChunkList"},
                 script : ChunkReadScripts,
                 applied : {FALSE},
                 result : {ChunksResult("none", "none", FALSE, 0)}]

applyReadChunkList ==
  /\ probe.function = "readChunkList"
  /\ ~probe.applied
  /\ probe' = [probe EXCEPT !.applied = TRUE,
                            !.result = readChunkList(probe.script)]
  /\ UNCHANGED <<threads, histories, abortCode, protoNegotiationStatus,
                 protocolVersion, registered, arrived, funnel, queue, acked,
                 fileChunksReceived, fileDiscoveryFinished, options,
                 checkFailed, faults>>

NextChunkReads == applyReadChunkList

SpecChunkReads == InitChunkReads /\ [][NextChunkReads]_vars

(***************************************************************************)
(* processErrCmd applied on its own: thread 1 has read ERR_CMD, thread 2   *)
(* is sending or gone, each with the sources it has sent in its log        *)
(***************************************************************************)
\* the logs of the two histories when ERR_CMD comes
ErrCmdLogs == {<< >>} \cup {[i \in 1..n |-> i] : n \in 1..NumSources}

InitErrCmd ==
  /\ options \in {o \in Options : o.ports = NumThreads /\ ~o.sendFileChunks}
  /\ threads = [t \in Threads |->
       Merge(NewThread,
             [pc |-> IF t = 1 THEN "run" ELSE "check",
              state |-> IF t = 1 THEN "PROCESS_ERR_CMD" ELSE "SEND_BLOCKS",
              hasSocket |-> TRUE])]
  /\ \E logs \in [Threads -> ErrCmdLogs], inUse \in BOOLEAN :
       histories = [t \in Threads |->
         Merge(NewHistory,
               [log |-> [i \in 1..Len(logs[t]) |-> NumSources * (t - 1) + i],
                inUse |-> (t = 1 \/ inUse)])]
  /\ abortCode = "OK"
  /\ protoNegotiationStatus = "V_MISMATCH_WAIT"
  /\ protocolVersion = ProtocolVersion
  /\ registered = Threads
  /\ arrived = {}
  /\ funnel = "FUNNEL_START"
  /\ queue = << >>
  /\ acked = {}
  /\ fileChunksReceived = FALSE
  /\ fileDiscoveryFinished = TRUE
  /\ checkFailed = "none"
  /\ faults = 1
  /\ probe = [function |-> "processErrCmd", frame |-> ShortFrame]

NextErrCmd == \E t \in Threads : processErrCmd(t)

SpecErrCmd == InitErrCmd /\ [][NextErrCmd]_vars

(***************************************************************************)
(* processAbortCmd applied on its own: thread 1 has read ABORT_CMD under   *)
(* every abort code of the parent, before or after a negotiation, while    *)
(* thread 2 sends blocks                                                   *)
(***************************************************************************)
\* the versions the sender speaks when ABORT_CMD comes: its own, or a lower
\* one it has agreed on
SpokenVersions == {ProtocolVersion} \cup {v \in PeerVersions : v < ProtocolVersion}

InitAbortCmd ==
  /\ options \in {o \in Options : o.ports = NumThreads}
  /\ protocolVersion \in SpokenVersions
  /\ protoNegotiationStatus =
       IF protocolVersion = ProtocolVersion THEN "V_MISMATCH_WAIT"
       ELSE "V_MISMATCH_RESOLVED"
  /\ \E e \in LoopErrorCodes :
       threads = [t \in Threads |->
         Merge(NewThread,
               [pc |-> IF t = 1 THEN "run" ELSE "check",
                state |-> IF t = 1 THEN "PROCESS_ABORT_CMD" ELSE "SEND_BLOCKS",
                localErrorCode |-> IF t = 1 THEN e ELSE "OK",
                threadProtocolVersion |-> protocolVersion,
                footerType |-> FooterTypeFor(protocolVersion),
                hasSocket |-> TRUE])]
  /\ histories = [t \in Threads |-> NewHistory]
  /\ abortCode \in AbortCodes
  /\ registered = Threads
  /\ arrived = {}
  /\ funnel = IF protocolVersion = ProtocolVersion THEN "FUNNEL_START"
              ELSE "FUNNEL_END"
  /\ queue = << >>
  /\ acked = {}
  /\ fileChunksReceived = FALSE
  /\ fileDiscoveryFinished = TRUE
  /\ checkFailed = "none"
  /\ faults = 1
  /\ probe = [function |-> "processAbortCmd", frame |-> ShortAbort]

NextAbortCmd == \E t \in Threads : processAbortCmd(t)

SpecAbortCmd == InitAbortCmd /\ [][NextAbortCmd]_vars

(***************************************************************************)
(* FileByteSource::read applied again and again to one block, as the loop  *)
(* of sendOneByteSource does, over aligned and plain reads                 *)
(***************************************************************************)
\* the size of a block of the disk, to which direct reads are aligned
kDiskBlockSize == 4096

\* the reads of one block that are followed
MaxReads == 3

\* where a block starts in its file, how long it is, and the sizes of the
\* buffer of a thread (whole blocks of the disk)
BlockOffsets ==
  {0, 1, kDiskBlockSize - 1, kDiskBlockSize, kDiskBlockSize + 1}
BlockSizes ==
  {1, kDiskBlockSize - 1, kDiskBlockSize, kDiskBlockSize + 1,
   2 * kDiskBlockSize + 1}
BufferSizes == {kDiskBlockSize, 2 * kDiskBlockSize}

\* the source has read its block in full / has recorded an error
finished(src) == src.bytesRead_ = src.size_
hasError(src) == src.localErrorCode # "OK"

\* FileByteSource.cpp lines 108-111
offsetRemainder(src) ==
  IF src.alignedReadNeeded_
    THEN (src.offset_ + src.bytesRead_) % kDiskBlockSize
  ELSE 0

\* FileByteSource.cpp lines 112-113
logicalRead(src) ==
  Min(src.bufferSize - offsetRemainder(src), src.size_ - src.bytesRead_)

\* FileByteSource.cpp lines 114-119
physicalRead(src) ==
  IF src.alignedReadNeeded_
    THEN ((logicalRead(src) + offsetRemainder(src) + kDiskBlockSize - 1)
            \div kDiskBlockSize) * kDiskBlockSize
  ELSE logicalRead(src)

\* FileByteSource.cpp line 120
seekPos(src) == (src.offset_ + src.bytesRead_) - offsetRemainder(src)

\* what pread may return for a request of physicalRead bytes: an error, the
\* end of the file, or a number of bytes up to the request
preadResults(src) ==
  {-1, 0} \cup
  {n \in {1, offsetRemainder(src), offsetRemainder(src) + 1,
          offsetRemainder(src) + logicalRead(src), physicalRead(src)} :
     n >= 1 /\ n <= physicalRead(src)}

\* variant of returnedSize: whatever was read past the remainder is handed
returnedSizeUncapped(numRead, remainder, logical) == numRead - remainder

\* FileByteSource.cpp lines 151-155: the size handed to the caller
returnedSize(numRead, remainder, logical) ==
  IF numRead - remainder > logical THEN logical ELSE numRead - remainder

\* FileByteSource.cpp lines 102-161: the source after a read that found
\* numRead bytes, with what the caller is handed (null: no buffer)
read(src, numRead) ==
  LET size == returnedSize(numRead, offsetRemainder(src), logicalRead(src))
  IN
  IF numRead < 0
    THEN [src EXCEPT !.localErrorCode = "BYTE_SOURCE_READ_ERROR",
                     !.open = FALSE,
                     !.last = [null |-> TRUE, size |-> 0, pointer |-> 0,
                               filePos |-> 0, numRead |-> numRead]]
  ELSE IF numRead = 0
    THEN [src EXCEPT !.open = FALSE,
                     !.last = [null |-> TRUE, size |-> 0, pointer |-> 0,
                               filePos |-> 0, numRead |-> numRead]]
  ELSE [src EXCEPT
          !.bytesRead_ = @ + size,
          !.last = [null |-> FALSE, size |-> size,
                    pointer |-> offsetRemainder(src),
                    filePos |-> seekPos(src) + offsetRemainder(src),
                    numRead |-> numRead]]

\* FileByteSource.cpp lines 56-64 and 66-94: a block of a file, opened
NewSource ==
  [function : {"FileByteSource::read"},
   size_ : BlockSizes, offset_ : BlockOffsets, bytesRead_ : {0},
   alignedReadNeeded_ : BOOLEAN, bufferSize : BufferSizes,
   localErrorCode : {"OK"}, open : {TRUE},
   last : {[null |-> TRUE, size |-> 0, pointer |-> 0, filePos |-> 0,
            numRead |-> 0]},
   before : {0},
   folded : {<< >>},
   stopped : {"no"}]

InitByteSource ==
  /\ Idle
  /\ probe \in NewSource

\* Sender.h lines 557-568: one turn of the loop over the source: a read, the
\* loop left on an error of the source, the WDT_CHECK on what was handed,
\* and the bytes handed folded into the checksum
applyRead ==
  /\ probe.function = "FileByteSource::read"
  /\ probe.stopped = "no"
  /\ ~finished(probe)
  /\ Len(probe.folded) < MaxReads
  /\ \E numRead \in preadResults(probe) :
       LET src == read(probe, numRead) IN
       probe' = [src EXCEPT
         !.before = probe.bytesRead_,
         !.stopped = IF hasError(src) THEN "break"
                     ELSE IF src.last.null \/ src.last.size <= 0
                       THEN "WDT_CHECK"
                     ELSE "no",
         !.folded = IF hasError(src) \/ src.last.null \/ src.last.size <= 0
                      THEN @
                    ELSE Append(@, [filePos |-> src.last.filePos,
                                    size |-> src.last.size])]
  /\ UNCHANGED <<threads, histories, abortCode, protoNegotiationStatus,
                 protocolVersion, registered, arrived, funnel, queue, acked,
                 fileChunksReceived, fileDiscoveryFinished, options,
                 checkFailed, faults>>

NextByteSource == applyRead

SpecByteSource == InitByteSource /\ [][NextByteSource]_vars

(***************************************************************************)
(* Properties of the version mismatch                                      *)
(***************************************************************************)
\* thread t is inside PROCESS_VERSION_MISMATCH, past its entry checks
ResolverPcs == {"funnelStart", "funnelResolve", "funnelClear", "funnelNotify"}

InMismatch(t) == threads[t].pc \in {"barrier", "funnel"} \cup ResolverPcs

PastBarrier(t) == threads[t].pc \in {"funnel"} \cup ResolverPcs

\* thread t leaves PROCESS_VERSION_MISMATCH in this step
Leaves(t) == InMismatch(t) /\ threads'[t].pc \in {"check", "exit"}

\* C1: of the threads that are in PROCESS_VERSION_MISMATCH together only one
\* runs the FUNNEL_START branch, it is run once, and once the funnel has
\* ended the negotiation status is final, RESOLVED or FAILED, and it is the
\* status every thread leaves with: to CONNECT when RESOLVED, to END when
\* FAILED.
C1_OneResolverSameStatus ==
  [][/\ \A t \in Threads :
          threads[t].pc # "funnelStart" /\ threads'[t].pc = "funnelStart"
            => /\ funnel = "FUNNEL_START"
               /\ \A u \in Threads \ {t} : threads'[u].pc \notin ResolverPcs
     /\ funnel # "FUNNEL_START" => funnel' # "FUNNEL_START"
     /\ funnel = "FUNNEL_END"
          => /\ protoNegotiationStatus' = protoNegotiationStatus
             /\ protoNegotiationStatus
                  \in {"V_MISMATCH_RESOLVED", "V_MISMATCH_FAILED"}
     /\ \A t \in Threads :
          Leaves(t)
            => /\ funnel' = "FUNNEL_END"
               /\ threads'[t].state = "CONNECT"
                    <=> protoNegotiationStatus' = "V_MISMATCH_RESOLVED"
               /\ threads'[t].state = "END"
                    <=> protoNegotiationStatus' = "V_MISMATCH_FAILED"]_vars

\* two threads were in PROCESS_VERSION_MISMATCH together and have both left
\* it after the mismatch was resolved
C1_Witness ==
  /\ Cardinality(arrived) >= 2
  /\ funnel = "FUNNEL_END"
  /\ protoNegotiationStatus = "V_MISMATCH_RESOLVED"
  /\ \A t \in arrived : ~InMismatch(t)

\* C2: a thread is past the barrier, and the protocol version of the parent
\* or of a thread has changed, only when every thread that is still
\* registered has arrived at the barrier.
C2_BarrierSafety ==
  (\/ \E t \in Threads : PastBarrier(t)
   \/ protocolVersion # ProtocolVersion
   \/ \E t \in Threads : threads[t].threadProtocolVersion # ProtocolVersion)
    => BarrierComplete

\* a thread has left PROCESS_VERSION_MISMATCH with a changed version after
\* two threads had arrived at the barrier
C2_Witness ==
  /\ Cardinality(arrived) >= 2
  /\ \E t \in arrived :
       /\ threads[t].state = "CONNECT"
       /\ threads[t].pc = "check"
       /\ threads[t].threadProtocolVersion # ProtocolVersion

\* C3: the version is committed, with the status V_MISMATCH_RESOLVED, when
\* the barrier has let through all the registered threads and while all of
\* them are still inside PROCESS_VERSION_MISMATCH; a thread that returns from
\* there to CONNECT does so after the commit and with the committed version.
C3_CommitOrder ==
  [][/\ (\/ protocolVersion' # protocolVersion
         \/ /\ protoNegotiationStatus' = "V_MISMATCH_RESOLVED"
            /\ protoNegotiationStatus # "V_MISMATCH_RESOLVED")
          => /\ BarrierComplete
             /\ protoNegotiationStatus' = "V_MISMATCH_RESOLVED"
             /\ \A t \in registered :
                  InMismatch(t) /\ threads'[t].state # "CONNECT"
     /\ \A t \in Threads :
          Leaves(t) /\ threads'[t].state = "CONNECT"
            => /\ protoNegotiationStatus = "V_MISMATCH_RESOLVED"
               /\ threads'[t].threadProtocolVersion = protocolVersion
               /\ protocolVersion' = protocolVersion]_vars

\* both threads have returned to CONNECT with the committed version, which
\* is not the one the transfer started with
C3_Witness ==
  /\ Cardinality(arrived) >= 2
  /\ protocolVersion # ProtocolVersion
  /\ \A t \in arrived :
       /\ ~InMismatch(t)
       /\ threads[t].state # "END"
       /\ threads[t].threadProtocolVersion = protocolVersion

(***************************************************************************)
(* Properties of readNextReceiverCmd, applied on its own                   *)
(***************************************************************************)
Drained == probe.function = "readNextReceiverCmd" /\ probe.applied

\* C7: readNextReceiverCmd returns OK only when the last read it made, in
\* the loop or with readWithTimeout, returned exactly one byte.
C7_OkMeansOneByteRead ==
  Drained /\ probe.result.code = "OK" => probe.result.lastRead = 1

\* the command byte arrived in the final read, after the send buffer had
\* drained over several timed-out reads
C7_Witness ==
  /\ Drained
  /\ probe.result.code = "OK"
  /\ probe.result.drained
  /\ probe.result.iterations >= 2

\* C8 as stated: the loop of readNextReceiverCmd ends and makes no more
\* iterations than the unacked bytes counted at entry.
C8_BoundedByInitialCount ==
  Drained
    => /\ probe.result.code # "STILL_READING"
       /\ probe.result.iterations <= probe.script.numUnackedBytes

\* C8, amended: the loop of readNextReceiverCmd ends; it makes one iteration
\* at least and no more than the unacked bytes counted at entry when that
\* count is above one.
C8_Terminates ==
  Drained
    => /\ probe.result.code # "STILL_READING"
       /\ probe.result.iterations >= 1
       /\ probe.result.iterations
            <= (IF probe.script.numUnackedBytes < 1 THEN 1
                ELSE probe.script.numUnackedBytes)

\* the count went down read after read and the loop made as many iterations
\* as there were unacked bytes at entry
C8_Witness ==
  /\ Drained
  /\ probe.script.numUnackedBytes = MaxUnacked
  /\ probe.result.iterations = MaxUnacked
  /\ probe.result.drained

(***************************************************************************)
(* Properties of the transfer history                                      *)
(***************************************************************************)
\* the handler thread t was about to run in state st has run in this step
Ran(t, st) ==
  /\ threads[t].pc = "run"
  /\ threads[t].state = st
  /\ threads'[t].pc # "run"

\* thread t pulls the head of the queue and sends it in this step
Pulls(t) ==
  /\ queue # << >>
  /\ \/ Ran(t, "SEND_BLOCKS") /\ threads'[t].state # "SEND_SIZE_CMD"
     \/ threads[t].pc = "getNextSource" /\ threads'[t].pc # "getNextSource"

\* the sources of the first n entries of the log of history h
Covered(h, n) == Range(SubSeq(h.log, 1, n))

\* C4 as stated: the set of acknowledged sources grows only in a step of
\* PROCESS_DONE_CMD, of PROCESS_WAIT_CMD or of READ_LOCAL_CHECKPOINT.
C4_OnlyDoneWaitCheckpoint ==
  [][acked' # acked
       => \E t \in Threads :
            \/ Ran(t, "PROCESS_DONE_CMD")
            \/ Ran(t, "PROCESS_WAIT_CMD")
            \/ Ran(t, "READ_LOCAL_CHECKPOINT")]_vars

\* C4, amended: a source becomes acknowledged only in a step of
\* PROCESS_DONE_CMD, PROCESS_WAIT_CMD or PROCESS_ERR_CMD of a thread that
\* has it in its log, in a step of READ_LOCAL_CHECKPOINT whose checkpoint
\* covers it, or in a step of PROCESS_ERR_CMD that dispatches a global
\* checkpoint covering it in the log of another thread; no acknowledged
\* source stops being so.
C4_AcknowledgedOnlyBy ==
  [][/\ acked \subseteq acked'
     /\ \A s \in acked' \ acked :
          \E t \in Threads :
            \/ /\ \/ Ran(t, "PROCESS_DONE_CMD")
                  \/ Ran(t, "PROCESS_WAIT_CMD")
                  \/ Ran(t, "PROCESS_ERR_CMD")
               /\ s \in Range(histories[t].log)
            \/ /\ Ran(t, "READ_LOCAL_CHECKPOINT")
               /\ histories'[t].hasCheckpoint
               /\ s \in Covered(histories[t],
                                histories'[t].lastCheckpoint.numBlocks)
            \/ /\ Ran(t, "PROCESS_ERR_CMD")
               /\ \E u \in Threads \ {t} :
                    /\ histories'[u].globalCheckpoint
                    /\ s \in Covered(histories[u],
                                     histories'[u].lastCheckpoint.numBlocks)]_vars

\* a thread is back in SEND_BLOCKS from PROCESS_ERR_CMD, which acknowledged
\* what the thread had sent
C4_Witness ==
  \E t \in Threads :
    /\ threads[t].state = "SEND_BLOCKS"
    /\ threads[t].pc = "check"
    /\ histories[t].log = << >>
    /\ ~histories[t].hasCheckpoint
    /\ acked # {}

\* the sources the sender holds: in the queue, in a log or acknowledged
Held ==
  Range(queue) \cup acked
    \cup UNION {Range(histories[t].log) : t \in Threads}

C6_OneSourceInFlight ==
  [][\A t \in Threads :
       Pulls(t) => Range(histories[t].log) \subseteq acked]_vars

\* C6, amended: the log of a connection changes in three ways only.  A
\* source that is written goes behind the ones written before it, which
\* need not be acknowledged.  A checkpoint, or the exit of the thread, keeps
\* a prefix of the log, which is acknowledged, and hands the rest back to
\* the queue.  DONE, WAIT and ERR acknowledge the whole log and empty it.
C6_FifoCumulativeAck ==
  [][\A t \in Threads :
       LET l == histories[t].log
           m == histories'[t].log
       IN
       \/ m = l
       \/ Pulls(t) /\ m = Append(l, Head(queue))
       \/ \E n \in 0..Len(l) :
            /\ m = SubSeq(l, 1, n)
            /\ Range(m) \subseteq acked'
            /\ Range(SubSeq(l, n + 1, Len(l))) \subseteq Range(queue')
       \/ m = << >> /\ Range(l) \subseteq acked']_vars

\* two sources were written on the connection and neither is acknowledged
C6_Witness ==
  \E t \in Threads :
    /\ Len(histories[t].log) = 2
    /\ histories[t].numAcknowledged = 0
    /\ acked = {}

(***************************************************************************)
(* Properties of the spurious checkpoint                                   *)
(***************************************************************************)
\* thread t reads a frame after a LOCAL_CHECKPOINT command in this step
SpuriousRead(t) ==
  /\ probe' # probe
  /\ probe'.function = "readAndVerifySpuriousCheckpoint"
  /\ probe'.thread = t

\* the thread stays in its state and nothing it keeps has changed
Stays(t) ==
  /\ threads'[t] = [threads[t] EXCEPT !.pc = "check"]
  /\ histories' = histories
  /\ queue' = queue
  /\ acked' = acked

Ends(t) ==
  /\ threads'[t].state = "END"
  /\ threads'[t].localErrorCode = "PROTOCOL_ERROR"

\* C9 as stated: a frame read in full is accepted, and changes nothing, if
\* it is the one checkpoint {port, 0, 0, 0}; any other one ends the thread
\* with PROTOCOL_ERROR.
C9_OnlyAllZero ==
  [][\A t \in Threads :
       SpuriousRead(t) /\ probe'.frame.complete
         => IF /\ probe'.frame.decodes
               /\ probe'.frame.checkpoints = <<Checkpoint(t, 0, 0, 0)>>
              THEN Stays(t) ELSE Ends(t)]_vars

\* C9, amended: a frame read in full is accepted, and changes nothing, if
\* it decodes to one checkpoint with this thread's port, numBlocks = 0 and
\* lastBlockReceivedBytes = 0, whatever its lastBlockSeqId; any other one
\* ends the thread with PROTOCOL_ERROR; a frame read short sends the thread
\* to CONNECT with SOCKET_READ_ERROR.
C9_SpuriousCheckpoint ==
  [][\A t \in Threads :
       SpuriousRead(t)
         => LET frame == probe'.frame IN
            IF ~frame.complete
              THEN /\ threads'[t].state = "CONNECT"
                   /\ threads'[t].localErrorCode = "SOCKET_READ_ERROR"
                   /\ histories' = histories
            ELSE IF /\ frame.decodes
                    /\ Len(frame.checkpoints) = 1
                    /\ frame.checkpoints[1].port = t
                    /\ frame.checkpoints[1].numBlocks = 0
                    /\ frame.checkpoints[1].lastBlockReceivedBytes = 0
              THEN Stays(t)
            ELSE Ends(t)]_vars

\* a thread that was reading the file chunks has accepted a checkpoint
\* whose lastBlockSeqId is not zero
C9_Witness ==
  /\ probe.function = "readAndVerifySpuriousCheckpoint"
  /\ probe.result = "OK"
  /\ probe.frame.checkpoints[1].lastBlockSeqId = 1
  /\ threads[probe.thread].state = "READ_FILE_CHUNKS"

(***************************************************************************)
(* Properties of the reconnects without progress                           *)
(***************************************************************************)
\* the error codes of a socket that must not be used again
NonRetryable == {"ENCRYPTION_ERROR"}

\* C10 as stated: CONNECT entered with numReconnectWithoutProgress at
\* max_transfer_retries or more makes no connection attempt, sets
\* NO_PROGRESS and goes to END.
C10_AlwaysNoProgress ==
  [][\A t \in Threads :
       /\ Ran(t, "CONNECT")
       /\ threads[t].numReconnectWithoutProgress >= MaxTransferRetries
       => /\ threads'[t].state = "END"
          /\ threads'[t].hasSocket = threads[t].hasSocket
          /\ threads'[t].localErrorCode = "NO_PROGRESS"]_vars

\* C10, amended: READ_LOCAL_CHECKPOINT counts a checkpoint equal to the one
\* before it and starts again from zero on any other it accepts.  CONNECT
\* entered with the count at max_transfer_retries or more makes no
\* connection attempt and goes to END, with NO_PROGRESS unless the socket it
\* had carries a non-retryable error, which is then the local error.
C10_NoProgress ==
  [][\A t \in Threads :
       /\ Ran(t, "READ_LOCAL_CHECKPOINT")
          /\ threads'[t].state = "SEND_SETTINGS"
          => threads'[t].numReconnectWithoutProgress
               = IF /\ histories[t].hasCheckpoint
                    /\ histories'[t].lastCheckpoint
                         = histories[t].lastCheckpoint
                   THEN threads[t].numReconnectWithoutProgress + 1
                   ELSE 0
       /\ Ran(t, "CONNECT")
          /\ threads[t].numReconnectWithoutProgress >= MaxTransferRetries
          => /\ threads'[t].state = "END"
             /\ threads'[t].hasSocket = threads[t].hasSocket
             /\ \/ threads'[t].localErrorCode = "NO_PROGRESS"
                \/ /\ threads[t].hasSocket
                   /\ threads'[t].localErrorCode \in NonRetryable]_vars

\* a thread has ended with NO_PROGRESS after the checkpoints it received
C10_Witness ==
  \E t \in Threads :
    /\ threads[t].state = "END"
    /\ threads[t].localErrorCode = "NO_PROGRESS"
    /\ threads[t].numReconnectWithoutProgress >= MaxTransferRetries
    /\ histories[t].hasCheckpoint
    /\ histories[t].lastCheckpoint.numBlocks = 1

(***************************************************************************)
(* Properties of READ_LOCAL_CHECKPOINT, in a run that is traced            *)
(***************************************************************************)
\* the frame is one checkpoint for the port of thread t
LocalCheckpointOf(t, frame) ==
  /\ frame.complete
  /\ frame.decodes
  /\ Len(frame.checkpoints) = 1
  /\ frame.checkpoints[1].port = t

\* C11: when the local checkpoint read in READ_LOCAL_CHECKPOINT has
\* numBlocks = -1 the thread goes to READ_RECEIVER_CMD; its local error code
\* was OK and stays so, and the history, the queue, the acknowledged sources
\* and the count of reconnects without progress are as they were.
C11_DirectToReadReceiverCmd ==
  [][\A t \in Threads :
       /\ Ran(t, "READ_LOCAL_CHECKPOINT")
       /\ LocalCheckpointOf(t, probe'.checkpoint)
       /\ probe'.checkpoint.checkpoints[1].numBlocks = -1
       => /\ threads'[t].state = "READ_RECEIVER_CMD"
          /\ threads[t].localErrorCode = "OK"
          /\ threads'[t] = [threads[t] EXCEPT !.state = "READ_RECEIVER_CMD",
                                              !.pc = "check"]
          /\ histories' = histories
          /\ queue' = queue
          /\ acked' = acked]_vars

\* a thread that had a source in flight reconnected, read a checkpoint with
\* numBlocks = -1 and is in READ_RECEIVER_CMD with the source still in its
\* history
C11_Witness ==
  \E t \in Threads :
    /\ threads[t].state = "READ_RECEIVER_CMD"
    /\ threads[t].pc = "check"
    /\ Tracing
    /\ probe.states # << >>
    /\ probe.states[Len(probe.states)] = "READ_LOCAL_CHECKPOINT"
    /\ LocalCheckpointOf(t, probe.checkpoint)
    /\ probe.checkpoint.checkpoints[1].numBlocks = -1
    /\ histories[t].log # << >>

(***************************************************************************)
(* Properties of connectToReceiver, applied on its own                     *)
(***************************************************************************)
Connected == probe.function = "connectToReceiver" /\ probe.applied

\* the attempts connectToReceiver may make
AttemptsAllowed == IF probe.max_retries < 1 THEN 1 ELSE probe.max_retries

\* every attempt that was made failed
AllAttemptsFailed ==
  \A i \in 1..probe.result.connectAttempts : probe.attempts[i] # "OK"

\* C12 as stated: connectToReceiver makes at most max(1, max_retries)
\* attempts and one when max_retries < 1; it sleeps once after every attempt
\* but the last it makes; when every attempt failed the result is
\* CONN_ERROR.
C12_AllFailedIsConnError ==
  Connected
    => /\ probe.result.connectAttempts \in 1..AttemptsAllowed
       /\ probe.result.sleeps = probe.result.connectAttempts - 1
       /\ AllAttemptsFailed => probe.result.code = "CONN_ERROR"

\* C12, amended: connectToReceiver makes at most max(1, max_retries)
\* attempts and one when max_retries < 1; it sleeps once after every attempt
\* but the last it makes; the result is OK when the last attempt made
\* connected; when every attempt failed it is ABORT if the last attempt
\* made did not fail with CONN_ERROR and the abort code is set, and
\* CONN_ERROR otherwise; all the attempts allowed are made unless one
\* connects, fails with CONN_ERROR or is followed by the abort code set.
C12_ConnectAttempts ==
  Connected
    => LET n == probe.result.connectAttempts IN
       /\ n \in 1..AttemptsAllowed
       /\ probe.result.sleeps = n - 1
       /\ \A i \in 1..(n - 1) : probe.attempts[i] \notin {"OK", "CONN_ERROR"}
       /\ probe.result.code =
            (IF probe.attempts[n] = "OK" THEN "OK"
             ELSE IF probe.attempts[n] # "CONN_ERROR" /\ probe.abortNow # "OK"
               THEN "ABORT"
             ELSE "CONN_ERROR")
       /\ n < AttemptsAllowed
            => \/ probe.attempts[n] \in {"OK", "CONN_ERROR"}
               \/ probe.abortNow # "OK"

\* every attempt allowed was made and failed, with a sleep between them and
\* none after the last, and the result is CONN_ERROR
C12_Witness ==
  /\ Connected
  /\ probe.max_retries = MaxConnectAttempts
  /\ probe.result.connectAttempts = MaxConnectAttempts
  /\ probe.result.sleeps = MaxConnectAttempts - 1
  /\ probe.result.code = "CONN_ERROR"
  /\ probe.attempts[MaxConnectAttempts] # "CONN_ERROR"

(***************************************************************************)
(* Properties of the errors of a thread                                    *)
(***************************************************************************)
\* C13: a thread whose local error code is PROTOCOL_ERROR is in END: it has
\* left the state loop, or is leaving it, and runs no handler again; no
\* thread is in CONNECT, or in any other state, with PROTOCOL_ERROR.
C13_ProtocolErrorIsFatal ==
  \A t \in Threads :
    threads[t].localErrorCode = "PROTOCOL_ERROR"
      => /\ threads[t].state = "END"
         /\ threads[t].pc \in {"exit", "done"}

\* a thread is leaving the state loop with PROTOCOL_ERROR while sources it
\* sent are in its history, not acknowledged
C13_Witness ==
  \E t \in Threads :
    /\ threads[t].pc = "exit"
    /\ threads[t].state = "END"
    /\ threads[t].localErrorCode = "PROTOCOL_ERROR"
    /\ Unacked(histories[t]) # << >>

(***************************************************************************)
(* Properties of the cancellation                                          *)
(***************************************************************************)
\* the shared abort code is set to an error other than VERSION_MISMATCH
Cancelled == abortCode \notin {"OK", "VERSION_MISMATCH"}

FlaggedAtLoopHead ==
  /\ probe.function = "getThreadAbortCode"
  /\ probe.applied
  /\ probe.isGlobalCheckpointReceived

\* C15 as stated: with the flag of its history set, the abort code of the
\* thread is GLOBAL_CHECKPOINT_ABORT and the thread runs no handler: it
\* leaves the loop with a local error code other than OK.
C15_FlaggedRunsNoHandler ==
  FlaggedAtLoopHead
    => /\ probe.abortCode = "GLOBAL_CHECKPOINT_ABORT"
       /\ probe.result.pc = "exit"
       /\ probe.result.localErrorCode # "OK"

\* C15, amended: the abort code of the parent comes first.  With the flag
\* set and no abort code of the parent, the abort code of the thread is
\* GLOBAL_CHECKPOINT_ABORT; the thread then, or when the parent holds an
\* abort code other than VERSION_MISMATCH, runs no handler and leaves the
\* loop in the state it was in, with local error code ABORT.  When the
\* parent holds VERSION_MISMATCH the flagged thread gets that code and runs
\* the handler of PROCESS_VERSION_MISMATCH, with local error code ABORT.  A
\* thread whose history is not flagged, the parent holding no abort code,
\* runs the handler of its state with its local error code as it was.
C15_ParentAbortCodeFirst ==
  probe.function = "getThreadAbortCode" /\ probe.applied
    => /\ probe.abortCode =
            IF probe.globalAbortCode # "OK" THEN probe.globalAbortCode
            ELSE IF probe.isGlobalCheckpointReceived
              THEN "GLOBAL_CHECKPOINT_ABORT"
            ELSE "OK"
       /\ probe.isGlobalCheckpointReceived
            => IF probe.globalAbortCode = "VERSION_MISMATCH"
                 THEN probe.result =
                        [probe.thread EXCEPT
                           !.pc = "run",
                           !.state = "PROCESS_VERSION_MISMATCH",
                           !.localErrorCode = "ABORT"]
                 ELSE probe.result =
                        [probe.thread EXCEPT
                           !.pc = "exit", !.localErrorCode = "ABORT"]
       /\ ~probe.isGlobalCheckpointReceived /\ probe.globalAbortCode = "OK"
            => probe.result = [probe.thread EXCEPT !.pc = "run"]

\* a flagged thread has passed the head of the loop while the parent held
\* VERSION_MISMATCH: the handler of PROCESS_VERSION_MISMATCH is run
C15_Witness ==
  /\ FlaggedAtLoopHead
  /\ probe.globalAbortCode = "VERSION_MISMATCH"
  /\ probe.thread.state = "SEND_BLOCKS"
  /\ probe.result.pc = "run"
  /\ probe.result.state = "PROCESS_VERSION_MISMATCH"

(***************************************************************************)
(* Properties of the count of reconnects without progress                  *)
(***************************************************************************)
\* the handler of READ_LOCAL_CHECKPOINT of thread t accepts in this step a
\* checkpoint that setLocalCheckpoint answers with NO_PROGRESS
NoProgressAccepted(t) ==
  /\ Ran(t, "READ_LOCAL_CHECKPOINT")
  /\ threads'[t].state = "SEND_SETTINGS"
  /\ histories[t].hasCheckpoint
  /\ histories'[t].lastCheckpoint = histories[t].lastCheckpoint

Written ==
  SubSeq(probe'.wire, Len(probe.wire) + 1, Len(probe'.wire))

\* the send of the block thread t pulls in this step ends with
\* BYTE_SOURCE_READ_ERROR
ReadShort(t) ==
  /\ Pulls(t)
  /\ threads'[t].localErrorCode = "BYTE_SOURCE_READ_ERROR"

WritesFooter(t) ==
  /\ Pulls(t)
  /\ threads'[t].state = "SEND_BLOCKS"
  /\ threads[t].footerType # "NO_FOOTER"

\* C18: a thread writes a footer after a block only if its protocol version
\* is the checksum version or a later one, and a tag footer only if it is
\* the incremental-tag version or a later one; so it is for every thread
\* after a version mismatch has lowered the protocol version.
C18_FooterVersionGated ==
  [][\A t \in Threads :
       WritesFooter(t)
         => /\ threads[t].threadProtocolVersion >= CHECKSUM_VERSION
            /\ threads[t].footerType = "ENC_TAG_FOOTER"
                 => threads[t].threadProtocolVersion
                      >= INCREMENTAL_TAG_VERIFICATION_VERSION]_vars

(***************************************************************************)
(* Properties of the transfer of one file without a fault, in a run that   *)
(* is traced                                                               *)
(***************************************************************************)
\* the thread has ended in a run in which the file chunks are not asked for
\* and nothing has failed
HappyEnd ==
  /\ Tracing
  /\ ~options.sendFileChunks
  /\ faults = MaxFaultsTraced
  /\ threads[1].pc = "done"
  /\ threads[1].state = "END"

\* the frames of a block sent in full with its footer
BlockOnWire == BlockFrames(SourceChunks) \o <<Out("FOOTER")>>

\* the end of the stream: DONE is written and DONE is read, DONE is echoed
\* or not, and the end of the stream is read
EndOnWire(echo) ==
  <<Out("DONE"), In("DONE_CMD")>>
    \o (IF echo THEN <<Out("DONE_ACK")>> ELSE << >>) \o <<In("EOF")>>

\* the states from SEND_DONE_CMD to the end
EndStates ==
  <<"SEND_DONE_CMD", "READ_RECEIVER_CMD", "PROCESS_DONE_CMD", "END">>

\* C19 as stated: the thread writes SETTINGS, the header, the data and the
\* footer of the block and DONE, then reads DONE and the end of the stream,
\* and nothing else; it visits CONNECT, SEND_SETTINGS, SEND_BLOCKS,
\* SEND_DONE_CMD, READ_RECEIVER_CMD, PROCESS_DONE_CMD and END in that order;
\* it ends with one block, the data bytes of the file and no error.
C19_ExactFramesAndStates ==
  HappyEnd
    => /\ probe.wire = <<Out("SETTINGS")>> \o BlockOnWire \o EndOnWire(FALSE)
       /\ \E n \in 1..2 :
            probe.states = <<"CONNECT", "SEND_SETTINGS">>
                             \o [i \in 1..n |-> "SEND_BLOCKS"] \o EndStates
       /\ probe.numBlocks = 1
       /\ probe.dataBytes = SourceChunks
       /\ threads[1].localErrorCode = "OK"

\* sequence seq without its elements equal to x
Without(seq, x) == SelectSeq(seq, LAMBDA e : e # x)

\* the sequence seq repeated n times
RECURSIVE Times(_, _)
Times(seq, n) == IF n = 0 THEN << >> ELSE seq \o Times(seq, n - 1)

\* C19, amended: the thread writes SETTINGS, every block with its footer
\* and DONE, reads DONE, echoes DONE and reads the end of the stream.
\* SEND_BLOCKS is entered once for every block and once more to find the
\* queue empty.  If the discovery of the files is finished at one of these
\* entries, the thread first goes through SEND_SIZE_CMD, once, writes SIZE,
\* after SETTINGS or after the footer of a block, and enters SEND_BLOCKS
\* again; there is no SIZE
\* only if the discovery finishes while the thread waits for the next
\* source.  It ends with every block counted, the data bytes of the files
\* and no error.
C19_HappyPath ==
  HappyEnd
    => /\ Without(probe.wire, Out("SIZE"))
            = <<Out("SETTINGS")>> \o Times(BlockOnWire, NumSourcesTraced)
                \o EndOnWire(TRUE)
       /\ Without(probe.states, "SEND_SIZE_CMD")
            = <<"CONNECT", "SEND_SETTINGS">>
                \o Times(<<"SEND_BLOCKS">>,
                         NumSourcesTraced + 1 + Len(probe.wire)
                           - Len(Without(probe.wire, Out("SIZE"))))
                \o EndStates
       /\ Len(probe.wire) <= Len(Without(probe.wire, Out("SIZE"))) + 1
       /\ Len(probe.states) + Len(Without(probe.wire, Out("SIZE")))
            = Len(Without(probe.states, "SEND_SIZE_CMD")) + Len(probe.wire)
       /\ \A i \in 1..Len(probe.wire) :
            probe.wire[i] = Out("SIZE")
              => /\ i > 1
                 /\ probe.wire[i - 1] \in {Out("SETTINGS"), Out("FOOTER")}
       /\ \A i \in 1..Len(probe.states) :
            probe.states[i] = "SEND_SIZE_CMD"
              => /\ i > 1 /\ i < Len(probe.states)
                 /\ probe.states[i - 1] = "SEND_BLOCKS"
                 /\ probe.states[i + 1] = "SEND_BLOCKS"
       /\ probe.numBlocks = NumSourcesTraced
       /\ probe.dataBytes = NumSourcesTraced * SourceChunks
       /\ threads[1].localErrorCode = "OK"
       /\ acked = 1..NumSourcesTraced

\* the file was sent without a fault and the thread has ended: the
\* discovery was finished when the thread came to SEND_BLOCKS, and SIZE
\* was written before the block
C19_Witness ==
  /\ HappyEnd
  /\ probe.numBlocks = 1
  /\ probe.wire[2] = Out("SIZE")
  /\ probe.wire[Len(probe.wire)] = In("EOF")

(***************************************************************************)
(* Properties of a peer that dies after DONE, in a run that is traced      *)
(***************************************************************************)
\* the last frame on the wire after this step
LastFrame == probe'.wire[Len(probe'.wire)]

\* C20: PROCESS_DONE_CMD ends the thread only when the end of the stream is
\* read; when it is not, the thread sets an error and goes to CONNECT.
\* CONNECT entered with an error set, when it connects, goes to
\* READ_LOCAL_CHECKPOINT with the error cleared; a checkpoint with
\* numBlocks = -1 sends the thread to READ_RECEIVER_CMD, DONE read there
\* sends it to PROCESS_DONE_CMD, and the end of the stream read there ends
\* the thread, the local error code being OK all the way.
C20_DoneAgainAfterPeerDied ==
  [][\A t \in Threads :
       /\ Ran(t, "PROCESS_DONE_CMD")
            => /\ histories'[t].log = << >>
               /\ IF LastFrame = In("EOF")
                    THEN /\ threads'[t].state = "END"
                         /\ threads'[t].localErrorCode
                              = threads[t].localErrorCode
                    ELSE /\ LastFrame = Out("DONE_ACK")
                         /\ threads'[t].state = "CONNECT"
                         /\ threads'[t].pc = "check"
                         /\ threads'[t].localErrorCode # "OK"
       /\ Ran(t, "CONNECT") /\ threads[t].localErrorCode # "OK"
            => \/ /\ threads'[t].state = "READ_LOCAL_CHECKPOINT"
                  /\ threads'[t].localErrorCode = "OK"
                  /\ threads'[t].hasSocket
               \/ /\ threads'[t].state
                       \in {"END", "PROCESS_VERSION_MISMATCH"}
                  /\ threads'[t].localErrorCode # "OK"
       /\ Ran(t, "READ_LOCAL_CHECKPOINT")
          /\ LocalCheckpointOf(t, probe'.checkpoint)
          /\ probe'.checkpoint.checkpoints[1].numBlocks = -1
            => /\ threads'[t].state = "READ_RECEIVER_CMD"
               /\ threads'[t].localErrorCode = "OK"
       /\ Ran(t, "READ_RECEIVER_CMD") /\ threads'[t].state = "PROCESS_DONE_CMD"
            => /\ LastFrame = In("DONE_CMD")
               /\ threads'[t].localErrorCode = threads[t].localErrorCode
     ]_vars

\* the peer died after DONE: the thread went from PROCESS_DONE_CMD to
\* CONNECT and READ_LOCAL_CHECKPOINT, read a checkpoint with numBlocks = -1,
\* went to READ_RECEIVER_CMD, read DONE again and the end of the stream, and
\* has ended without an error
C20_Witness ==
  /\ Tracing
  /\ threads[1].pc = "done"
  /\ threads[1].state = "END"
  /\ threads[1].localErrorCode = "OK"
  /\ Len(probe.states) > 6
  /\ SubSeq(probe.states, Len(probe.states) - 5, Len(probe.states))
       = <<"PROCESS_DONE_CMD", "CONNECT", "READ_LOCAL_CHECKPOINT",
           "READ_RECEIVER_CMD", "PROCESS_DONE_CMD", "END">>
  /\ LocalCheckpointOf(1, probe.checkpoint)
  /\ probe.checkpoint.checkpoints[1].numBlocks = -1
  /\ Len(probe.wire) > 6
  /\ SubSeq(probe.wire, Len(probe.wire) - 5, Len(probe.wire))
       = <<In("DONE_CMD"), Out("DONE_ACK"), In("LOCAL_CHECKPOINT"),
           In("DONE_CMD"), Out("DONE_ACK"), In("EOF")>>
  /\ acked = 1..NumSourcesTraced

(***************************************************************************)
(* Progress of the version mismatch, the threads being scheduled fairly    *)
(***************************************************************************)
\* no thread moves any more (a WDT_CHECK has failed), or a registered thread
\* has returned from start() without passing the barrier
Halted ==
  \/ ~Alive
  \/ \E u \in registered : threads[u].pc = "done"

\* thread t has left PROCESS_VERSION_MISMATCH for CONNECT with the version
\* that was committed
Recovered(t) ==
  /\ threads[t].pc = "check"
  /\ threads[t].state = "CONNECT"
  /\ protoNegotiationStatus = "V_MISMATCH_RESOLVED"
  /\ threads[t].threadProtocolVersion = protocolVersion

\* thread t has left PROCESS_VERSION_MISMATCH for END, the negotiation
\* having failed
GaveUp(t) ==
  /\ threads[t].pc = "exit"
  /\ threads[t].state = "END"
  /\ protoNegotiationStatus = "V_MISMATCH_FAILED"

\* some thread has stored a version the peer proposed and the sender speaks
Proposed == \E u \in Threads : threads[u].negotiatedProtocol > 0

Handed ==
  /\ probe.function = "FileByteSource::read"
  /\ probe.alignedReadNeeded_
  /\ ~probe.last.null

\* the source as it was before its last read
BeforeRead == [probe EXCEPT !.bytesRead_ = probe.before]

\* the sum of the sizes folded into the checksum, and whether what was
\* folded is the bytes of the block in their order
RECURSIVE SumSizes(_)
SumSizes(chunks) ==
  IF chunks = << >> THEN 0
  ELSE chunks[1].size + SumSizes(Tail(chunks))

InOrder(chunks, from) ==
  \A i \in 1..Len(chunks) :
    chunks[i].filePos = from + SumSizes(SubSeq(chunks, 1, i - 1))

\* C22: in aligned mode FileByteSource::read hands no padding to its
\* caller: the size handed is at most min(buffer size - offsetRemainder,
\* size_ - bytesRead_), the pointer handed skips offsetRemainder bytes and
\* what is handed lies within what pread found and starts at the next byte
\* of the block; when the block is finished the sizes handed add up to
\* size_ and the checksum was folded over the bytes of the block, in order.
C22_NoPaddingHanded ==
  /\ Handed =>
       /\ probe.last.size
            <= Min(probe.bufferSize - offsetRemainder(BeforeRead),
                   probe.size_ - probe.before)
       /\ probe.last.pointer = offsetRemainder(BeforeRead)
       /\ probe.last.pointer + probe.last.size <= probe.last.numRead
       /\ probe.last.filePos = probe.offset_ + probe.before
  /\ (probe.function = "FileByteSource::read" /\ probe.alignedReadNeeded_
        /\ finished(probe) /\ probe.stopped = "no") =>
       /\ SumSizes(probe.folded) = probe.size_
       /\ InOrder(probe.folded, probe.offset_)

\* a block that starts inside a block of the disk was read aligned in more
\* than one read, the last read having found more than was handed
C22_Witness ==
  /\ Handed
  /\ finished(probe)
  /\ probe.stopped = "no"
  /\ Len(probe.folded) > 1
  /\ probe.offset_ % kDiskBlockSize # 0
  /\ probe.last.pointer > 0
  /\ probe.last.numRead > probe.last.pointer + probe.last.size

C24_NextStateAfterConnect ==
  [][\A t \in Threads :
       (Ran(t, "CONNECT") /\ threads'[t].hasSocket
          /\ threads'[t].state \notin {"END", "PROCESS_VERSION_MISMATCH"})
       => /\ threads'[t].state =
               IF threads[t].localErrorCode # "OK"
                 THEN "READ_LOCAL_CHECKPOINT" ELSE "SEND_SETTINGS"
          /\ threads'[t].localErrorCode = "OK"
          /\ ~threads'[t].totalSizeSent]_vars

\* a thread has connected after an attempt that failed and reads the
\* checkpoint next, its local error code and totalSizeSent reset
C24_Witness ==
  /\ threads[1].pc = "check"
  /\ threads[1].state = "READ_LOCAL_CHECKPOINT"
  /\ threads[1].hasSocket
  /\ threads[1].localErrorCode = "OK"
  /\ ~threads[1].totalSizeSent
  /\ faults < MaxFaults

(***************************************************************************)
(* Properties of SEND_BLOCKS and SEND_SIZE_CMD                             *)
(***************************************************************************)
\* the SIZE frame is written in this step
SizeWritten == Tracing /\ Out("SIZE") \in Range(Written)

\* thread t may report the size: its version knows the SIZE frame, the size
\* was not sent on this connection and the discovery has finished
SizeDue(t) ==
  /\ threads[t].threadProtocolVersion >= RECEIVER_PROGRESS_REPORT_VERSION
  /\ ~threads[t].totalSizeSent
  /\ fileDiscoveryFinished

\* C25 as stated, for SEND_SIZE_CMD: the handler sets totalSizeSent and
\* returns to SEND_BLOCKS.
C25_SizeCmdAlwaysMarks ==
  [][\A t \in Threads :
       Ran(t, "SEND_SIZE_CMD")
         => threads'[t].totalSizeSent /\ threads'[t].state = "SEND_BLOCKS"
    ]_vars

\* C25, amended: the SIZE frame is written at most once per connection (a
\* checkpoint of a new connection is read between two SIZE frames), and
\* only by SEND_SIZE_CMD, for a thread whose version is at least the
\* receiver-progress-report version, the discovery being finished.
\* SEND_BLOCKS goes to SEND_SIZE_CMD exactly in that case, before it pulls a
\* source; SEND_SIZE_CMD either writes SIZE, sets totalSizeSent and returns
\* to SEND_BLOCKS, or fails to write, sets SOCKET_WRITE_ERROR and goes to
\* CHECK_FOR_ABORT with totalSizeSent as it was; totalSizeSent is set by
\* SEND_SIZE_CMD only and cleared by a connect that succeeds only.
C25_SizeOncePerConnection ==
  /\ [](Tracing =>
         \A i, j \in 1..Len(probe.wire) :
           (i < j /\ probe.wire[i] = Out("SIZE")
                  /\ probe.wire[j] = Out("SIZE"))
           => \E k \in (i + 1)..(j - 1) :
                probe.wire[k] = In("LOCAL_CHECKPOINT"))
  /\ [][/\ SizeWritten
            => \E t \in Threads :
                 /\ Ran(t, "SEND_SIZE_CMD")
                 /\ SizeDue(t)
                 /\ threads'[t].totalSizeSent
                 /\ threads'[t].state = "SEND_BLOCKS"
                 /\ Written = <<Out("SIZE")>>
        /\ \A t \in Threads :
             /\ (threads[t].totalSizeSent /\ ~threads'[t].totalSizeSent)
                  => Ran(t, "CONNECT") /\ threads'[t].hasSocket
             /\ (~threads[t].totalSizeSent /\ threads'[t].totalSizeSent)
                  => Ran(t, "SEND_SIZE_CMD") /\ SizeWritten
             /\ Ran(t, "SEND_BLOCKS")
                  => /\ threads'[t].state = "SEND_SIZE_CMD" <=> SizeDue(t)
                     /\ threads'[t].state = "SEND_SIZE_CMD"
                          => queue' = queue /\ Written = << >>
             /\ Ran(t, "SEND_SIZE_CMD")
                  => \/ SizeWritten
                     \/ /\ threads'[t].state = "CHECK_FOR_ABORT"
                        /\ threads'[t].localErrorCode = "SOCKET_WRITE_ERROR"
                        /\ ~threads'[t].totalSizeSent
                        /\ Written = << >>
       ]_vars

\* the size was written on two connections of the thread, and is marked as
\* sent on the second
C25_Witness ==
  /\ Tracing
  /\ Len(SelectSeq(probe.wire, LAMBDA e : e = Out("SIZE"))) = 2
  /\ threads[1].totalSizeSent
  /\ threads[1].state = "SEND_BLOCKS"

\* the send of the source thread t pulls in this step has failed
SendFailed(t) == threads'[t].localErrorCode # "OK"

\* C26 as stated: without a source SEND_BLOCKS goes to SEND_DONE_CMD; a
\* send that fails at the socket goes to CHECK_FOR_ABORT; a source that
\* addSource refuses ends the thread; in every other case the thread stays
\* in SEND_BLOCKS.
C26_OnlySocketFailuresChecked ==
  [][\A t \in Threads :
       (Pulls(t) /\ ~histories[t].globalCheckpoint
          /\ threads'[t].localErrorCode # "SOCKET_WRITE_ERROR")
       => threads'[t].state = "SEND_BLOCKS"]_vars

\* C26, amended: without a source SEND_BLOCKS goes to SEND_DONE_CMD (once
\* the discovery has finished or the transfer is aborted); a source that
\* addSource refuses ends the thread with CONN_ERROR, whether its send
\* failed or not; a send that fails, at the socket, at the byte source or
\* by an abort, and whose source was added goes to CHECK_FOR_ABORT, never
\* to END; a send that succeeds stays in SEND_BLOCKS.
C26_SendBlocksTransitions ==
  [][\A t \in Threads :
       /\ (threads[t].state = "SEND_BLOCKS"
             /\ threads[t].pc \in {"run", "getNextSource"}
             /\ threads'[t].pc \notin {"run", "getNextSource"}
             /\ threads'[t].state # "SEND_SIZE_CMD"
             /\ queue = << >>)
            => threads'[t].state = "SEND_DONE_CMD" /\ UNCHANGED histories
       /\ Pulls(t)
            => /\ threads[t].localErrorCode = "OK"
               /\ IF histories[t].globalCheckpoint
                    THEN /\ threads'[t].state = "END"
                         /\ threads'[t].localErrorCode = "CONN_ERROR"
                         /\ histories'[t] = histories[t]
                  ELSE /\ Len(histories'[t].log) = Len(histories[t].log) + 1
                       /\ threads'[t].state =
                            IF SendFailed(t) THEN "CHECK_FOR_ABORT"
                            ELSE "SEND_BLOCKS"
                       /\ threads'[t].localErrorCode \in
                            {"OK", "SOCKET_WRITE_ERROR",
                             "BYTE_SOURCE_READ_ERROR", "ABORT"}]_vars

\* a thread whose source could not be read in full is about to check for an
\* abort, the source in its history
C26_Witness ==
  \E t \in Threads :
    /\ threads[t].state = "CHECK_FOR_ABORT"
    /\ threads[t].pc = "check"
    /\ threads[t].localErrorCode = "BYTE_SOURCE_READ_ERROR"
    /\ histories[t].log # << >>
    /\ ~histories[t].globalCheckpoint

(***************************************************************************)
(* Properties of READ_FILE_CHUNKS                                          *)
(***************************************************************************)
\* the command the handler of this step has read first, "none" when it has
\* read none
CmdRead ==
  IF Written # << >> /\ Written[1].dir = "in" THEN Written[1].cmd
  ELSE "none"

\* C27 as stated, for ACK: READ_FILE_CHUNKS goes to SEND_BLOCKS when it
\* reads ACK.
C27_AckSendsBlocks ==
  [][\A t \in Threads :
       (Tracing /\ Ran(t, "READ_FILE_CHUNKS") /\ CmdRead = "ACK_CMD")
       => threads'[t].state = "SEND_BLOCKS"]_vars

\* C27, amended: READ_FILE_CHUNKS goes by the command byte it reads: ABORT
\* to PROCESS_ABORT_CMD; WAIT to READ_FILE_CHUNKS; ACK to SEND_BLOCKS when
\* the sender has got the list of file chunks and to END with
\* PROTOCOL_ERROR when it has not; LOCAL_CHECKPOINT to READ_FILE_CHUNKS
\* when the checkpoint is verified as spurious, to CONNECT with
\* SOCKET_READ_ERROR when it is read short and to END with PROTOCOL_ERROR
\* when it is not spurious; CHUNKS to the read of the list; every other
\* command to END with PROTOCOL_ERROR; when no command byte is read, to
\* CHECK_FOR_ABORT with SOCKET_READ_ERROR.
C27_ReadFileChunksDispatch ==
  [][\A t \in Threads :
       (Tracing /\ Ran(t, "READ_FILE_CHUNKS")) =>
         LET th == threads'[t] IN
         CASE CmdRead = "none" ->
                /\ th.state = "CHECK_FOR_ABORT"
                /\ th.localErrorCode = "SOCKET_READ_ERROR"
           [] CmdRead = "ABORT_CMD" -> th.state = "PROCESS_ABORT_CMD"
           [] CmdRead = "WAIT_CMD" -> th.state = "READ_FILE_CHUNKS"
           [] CmdRead = "ACK_CMD" ->
                IF fileChunksReceived THEN th.state = "SEND_BLOCKS"
                ELSE th.state = "END" /\ th.localErrorCode = "PROTOCOL_ERROR"
           [] CmdRead = "LOCAL_CHECKPOINT_CMD" ->
                \/ th.state = "READ_FILE_CHUNKS"
                \/ /\ th.state = "CONNECT"
                   /\ th.localErrorCode = "SOCKET_READ_ERROR"
                \/ th.state = "END" /\ th.localErrorCode = "PROTOCOL_ERROR"
           [] CmdRead = "CHUNKS_CMD" ->
                \/ th.state = "SEND_BLOCKS"
                \/ /\ th.state = "CHECK_FOR_ABORT"
                   /\ th.localErrorCode \in
                        {"SOCKET_READ_ERROR", "SOCKET_WRITE_ERROR"}
                \/ th.state = "END" /\ th.localErrorCode = "PROTOCOL_ERROR"
           [] OTHER ->
                th.state = "END" /\ th.localErrorCode = "PROTOCOL_ERROR"
    ]_vars

\* the thread has read ACK before any list of file chunks came and has
\* ended with PROTOCOL_ERROR
C27_Witness ==
  /\ Tracing
  /\ probe.wire # << >>
  /\ probe.wire[Len(probe.wire)] = In("ACK_CMD")
  /\ ~fileChunksReceived
  /\ threads[1].state = "END"
  /\ threads[1].localErrorCode = "PROTOCOL_ERROR"

\* the CHUNKS branch was applied to a list of segments
ChunksApplied == probe.function = "readFileChunks" /\ probe.applied

\* the first k segments of the script were read in full and decoded, and
\* the entries they added to the list
ReadAndDecoded(script, k) ==
  \A i \in 1..k :
    /\ script.segments[i].lengthRead
    /\ script.segments[i].dataRead
    /\ script.segments[i].decodes

RECURSIVE Decoded(_, _)
Decoded(script, k) ==
  IF k = 0 THEN 0 ELSE script.segments[k].entries + Decoded(script, k - 1)

\* the loop comes to its head with the first k segments in the list, not
\* having had numFiles entries or more before
LoopHeadAfter(script, k) ==
  /\ ReadAndDecoded(script, k)
  /\ \A j \in 0..(k - 1) : Decoded(script, j) < script.numFiles

\* C28 as stated, for the reply: a list that is delivered is acknowledged
\* and the thread goes to SEND_BLOCKS.
C28_DeliveredIsAcked ==
  (ChunksApplied /\ probe.result.delivered)
    => probe.result.ack /\ probe.result.next = "SEND_BLOCKS"

\* C28, amended: the list is delivered to the sender exactly when the loop
\* comes to its head with exactly numFiles entries decoded; the thread then
\* writes ACK and goes to SEND_BLOCKS, or, the write of ACK failing, sets
\* SOCKET_WRITE_ERROR and goes to CHECK_FOR_ABORT, the list delivered; when
\* the loop comes to its head with more than numFiles entries the thread
\* sets PROTOCOL_ERROR and goes to END, and nothing is delivered nor
\* acknowledged.
C28_ChunksDelivery ==
  ChunksApplied =>
    LET r == probe.result
        script == probe.script
    IN
    /\ r.delivered
         <=> \E k \in 0..Len(script.segments) :
               LoopHeadAfter(script, k) /\ Decoded(script, k) = script.numFiles
    /\ r.delivered =>
         IF probe.ackWritten
           THEN r.ack /\ r.next = "SEND_BLOCKS" /\ r.code = "OK"
         ELSE /\ ~r.ack
              /\ r.next = "CHECK_FOR_ABORT"
              /\ r.code = "SOCKET_WRITE_ERROR"
    /\ (\E k \in 1..Len(script.segments) :
          LoopHeadAfter(script, k) /\ Decoded(script, k) > script.numFiles)
         => /\ r.code = "PROTOCOL_ERROR"
            /\ r.next = "END"
            /\ ~r.delivered
    /\ r.ack => r.delivered

\* two entries were announced and the first segment brought one, the second
\* two: the thread has ended with PROTOCOL_ERROR and nothing was delivered
C28_Witness ==
  /\ ChunksApplied
  /\ probe.script.numFiles = 2
  /\ ReadAndDecoded(probe.script, 2)
  /\ probe.script.segments[1].entries = 1
  /\ probe.script.segments[2].entries = 2
  /\ probe.result.code = "PROTOCOL_ERROR"
  /\ probe.result.next = "END"
  /\ ~probe.result.delivered

RECURSIVE Dispatched(_, _, _)
Dispatched(st, cps, n) ==
  IF n = 0 THEN st
  ELSE handleGlobalCheckpoint(Dispatched(st, cps, n - 1), cps[n])

\* what thread t leaves behind when it has marked its log as acknowledged
\* and dispatched nothing
MarkedOnly(t) ==
  [histories |-> [histories EXCEPT ![t] = markAllAcknowledged(@)],
   queue |-> queue,
   acked |-> acked \cup Range(histories[t].log)]

\* the histories, the queue and the acknowledged sources after the step
After == [histories |-> histories', queue |-> queue', acked |-> acked']

\* C30: PROCESS_ERR_CMD reads the length and the list of checkpoints,
\* decodes it, hands every checkpoint decoded to handleGlobalCheckpoint in
\* the order of the list and returns to SEND_BLOCKS on the same connection;
\* a short read leads to CONNECT with SOCKET_READ_ERROR and a list that
\* does not decode to END with PROTOCOL_ERROR, no checkpoint being
\* dispatched in either case.
C30_ErrCmdDispatchesInOrder ==
  [][\A t \in Threads :
       (probe.function = "processErrCmd" /\ Ran(t, "PROCESS_ERR_CMD")) =>
         LET frame == probe'.frame
             th == threads'[t]
         IN
         IF ~frame.complete
           THEN /\ th.state = "CONNECT"
                /\ th.localErrorCode = "SOCKET_READ_ERROR"
                /\ After = MarkedOnly(t)
         ELSE IF ~frame.decodes
           THEN /\ th.state = "END"
                /\ th.localErrorCode = "PROTOCOL_ERROR"
                /\ After = MarkedOnly(t)
         ELSE /\ th.state = "SEND_BLOCKS"
              /\ th.hasSocket
              /\ th.localErrorCode = threads[t].localErrorCode
              /\ After = Dispatched(MarkedOnly(t), frame.checkpoints,
                                    Len(frame.checkpoints))]_vars

\* thread 1 has read a list of two checkpoints for the history of thread 2,
\* the first for one and the second for both of the two blocks in its log:
\* the first cut the log, so the second exceeds it and is not taken; one
\* block is acknowledged, the other is back in the queue, and thread 1 sends
\* blocks again
C30_Witness ==
  /\ probe.function = "processErrCmd"
  /\ Len(probe.frame.checkpoints) = 2
  /\ probe.frame.checkpoints[1].port = 2
  /\ probe.frame.checkpoints[2].port = 2
  /\ probe.frame.checkpoints[1].numBlocks = 1
  /\ probe.frame.checkpoints[2].numBlocks = 2
  /\ threads[1].state = "SEND_BLOCKS"
  /\ threads[1].pc = "check"
  /\ Len(queue) = 1
  /\ Range(queue) \cap acked = {}
  /\ Range(histories[2].log) \subseteq acked
  /\ Len(histories[2].log) = 1
  /\ histories[2].lastCheckpoint = probe.frame.checkpoints[1]
  /\ histories[2].globalCheckpoint

(***************************************************************************)
(* Properties of PROCESS_ABORT_CMD                                         *)
(***************************************************************************)
\* the abort frame thread t has read in this step of PROCESS_ABORT_CMD
AbortCmdRan(t) ==
  probe.function = "processAbortCmd" /\ Ran(t, "PROCESS_ABORT_CMD")

\* C31: PROCESS_ABORT_CMD, having decoded a full abort frame, hands the
\* peer's remoteError to the shared abort code, which takes it unless a code
\* was set before, and sets the local error code to ABORT; it goes to
\* PROCESS_VERSION_MISMATCH exactly when remoteError is VERSION_MISMATCH and
\* the negotiation function accepts the negotiatedProtocol of the peer,
\* which is then the proposal of the thread; in every other case it goes to
\* END and leaves the proposal alone, with remote error VERSION_INCOMPATIBLE
\* when the version is not accepted and the peer's remoteError otherwise.
C31_AbortCmdBroadcastsAndDispatches ==
  [][\A t \in Threads :
       (AbortCmdRan(t) /\ probe'.frame.complete) =>
         LET frame == probe'.frame
             th == threads'[t]
             mismatch == frame.remoteError = "VERSION_MISMATCH"
             accepted ==
               negotiateProtocol(frame.negotiatedProtocol,
                                 threads[t].threadProtocolVersion)
                 = frame.negotiatedProtocol
         IN
         /\ abortCode' = IF abortCode = "OK" THEN frame.remoteError
                         ELSE abortCode
         /\ th.localErrorCode = "ABORT"
         /\ (th.state = "PROCESS_VERSION_MISMATCH") <=> (mismatch /\ accepted)
         /\ th.state \in {"PROCESS_VERSION_MISMATCH", "END"}
         /\ IF mismatch /\ accepted
              THEN /\ th.negotiatedProtocol = frame.negotiatedProtocol
                   /\ th.remoteErrorCode = "VERSION_MISMATCH"
              ELSE /\ th.negotiatedProtocol = threads[t].negotiatedProtocol
                   /\ th.remoteErrorCode =
                        IF mismatch THEN "VERSION_INCOMPATIBLE"
                        ELSE frame.remoteError]_vars

\* thread 1 has read an abort frame with VERSION_MISMATCH and a version it
\* speaks: the abort code is set for all threads and the thread is on its
\* way to PROCESS_VERSION_MISMATCH with the version as its proposal
C31_Witness ==
  /\ probe.function = "processAbortCmd"
  /\ probe.frame.complete
  /\ probe.frame.remoteError = "VERSION_MISMATCH"
  /\ probe.frame.negotiatedProtocol < ProtocolVersion
  /\ threads[1].state = "PROCESS_VERSION_MISMATCH"
  /\ threads[1].negotiatedProtocol = probe.frame.negotiatedProtocol
  /\ threads[1].localErrorCode = "ABORT"
  /\ abortCode = "VERSION_MISMATCH"

\* C32: when PROCESS_ABORT_CMD reads the abort frame short, the thread goes
\* to END with local error ABORT; the shared abort code, the remote error
\* code and the proposal of the thread stay as they were, and so does every
\* other thread.
C32_ShortAbortEndsQuietly ==
  [][\A t \in Threads :
       (AbortCmdRan(t) /\ ~probe'.frame.complete) =>
         /\ threads'[t].state = "END"
         /\ threads'[t].localErrorCode = "ABORT"
         /\ threads'[t].remoteErrorCode = threads[t].remoteErrorCode
         /\ threads'[t].negotiatedProtocol = threads[t].negotiatedProtocol
         /\ abortCode' = abortCode
         /\ \A u \in Threads \ {t} : threads'[u] = threads[u]]_vars

\* thread 1 has read the abort frame short and is at END with ABORT, while
\* no abort code is set and thread 2 goes on sending blocks
C32_Witness ==
  /\ probe.function = "processAbortCmd"
  /\ ~probe.frame.complete
  /\ threads[1].state = "END"
  /\ threads[1].localErrorCode = "ABORT"
  /\ threads[1].remoteErrorCode = "OK"
  /\ abortCode = "OK"
  /\ threads[2].state = "SEND_BLOCKS"

(***************************************************************************)
(* Properties of the checks of PROCESS_VERSION_MISMATCH                    *)
(***************************************************************************)
\* some thread has published a protocol it negotiated with its peer
Published == \E u \in Threads : threads[u].negotiatedProtocol > 0

\* C33: the check of the funnel winner that the agreed protocol is positive
\* never fails: whenever a thread is the winner of the funnel, some thread
\* has published a negotiated protocol above 0, however the abort code
\* became VERSION_MISMATCH.
C33_AgreedProtocolPositive ==
  /\ (\E t \in Threads : threads[t].pc = "funnelResolve") => Published
  /\ checkFailed # "negotiatedProtocol > 0"

\* thread t is about to run the handler of PROCESS_VERSION_MISMATCH
EntersMismatch(t) ==
  threads[t].pc = "run" /\ threads[t].state = "PROCESS_VERSION_MISMATCH"

\* C34: the entry checks of PROCESS_VERSION_MISMATCH hold on every path:
\* whenever a thread is about to run the handler, whether CONNECT or
\* PROCESS_ABORT_CMD returned the state or the loop forced it, its local
\* error code is ABORT and the negotiation status is not V_MISMATCH_FAILED,
\* which the winner of the funnel sets before it resolves; neither check
\* has failed.
C34_EntryChecksHold ==
  /\ \A t \in Threads :
       EntersMismatch(t) =>
         /\ threads[t].localErrorCode = "ABORT"
         /\ protoNegotiationStatus # "V_MISMATCH_FAILED"
  /\ checkFailed \notin {"localErrorCode == ABORT",
                         "negotiationStatus != V_MISMATCH_FAILED"}

\* thread 2 is about to run the handler, forced by the loop without a
\* proposal of its own, while thread 1 waits at the barrier with the
\* proposal its peer sent
C34_Witness ==
  /\ EntersMismatch(2)
  /\ threads[2].negotiatedProtocol = 0
  /\ threads[2].localErrorCode = "ABORT"
  /\ threads[1].pc = "barrier"
  /\ threads[1].negotiatedProtocol > 0
  /\ protoNegotiationStatus = "V_MISMATCH_WAIT"

(***************************************************************************)
(* Properties of the end of a thread                                       *)
(***************************************************************************)
\* C35: every return path of start, the early return on a missing scratch
\* buffer included, marks the history of the thread not in use and
\* deregisters the thread: a thread that has returned from start is not
\* registered and its history is not in use, so no barrier waits for it.
C35_EveryReturnDeregisters ==
  \A t \in Threads :
    threads[t].pc = "done" => (t \notin registered /\ ~histories[t].inUse)

\* thread t leaves its loop, or returns early from start, in this step
Finishes(t) ==
  /\ threads[t].pc \notin {"exit", "done", "unused"}
  /\ threads'[t].pc \in {"exit", "done"}

\* PROCESS_DONE_CMD of thread t has found the end of the stream in this step
DoneSucceeded(t) ==
  Ran(t, "PROCESS_DONE_CMD") /\ threads'[t].state = "END"

\* thread t has left its loop
Finished(t) == threads[t].pc \in {"exit", "done"}

\* C36: a thread finishes with local error code OK if and only if the last
\* handler it ran was PROCESS_DONE_CMD and the end of the stream was found;
\* so a thread that has finished with local error code OK is at END, has
\* got DONE from its peer and has marked all it had dispatched as
\* acknowledged.
C36_OkIffDone ==
  /\ [][\A t \in Threads :
          Finishes(t) =>
            /\ (threads'[t].localErrorCode = "OK") <=> DoneSucceeded(t)
            /\ DoneSucceeded(t) =>
                 /\ Range(histories[t].log) \subseteq acked'
                 /\ histories'[t].log = << >>]_vars
  /\ [](\A t \in Threads :
          (Finished(t) /\ threads[t].localErrorCode = "OK") =>
            /\ threads[t].state = "END"
            /\ histories[t].log = << >>)
  /\ [][\A t \in Threads :
          Finished(t) =>
            threads'[t].localErrorCode = threads[t].localErrorCode]_vars

\* thread 1 has finished with local error code OK after its peer
\* acknowledged a source with DONE, while thread 2 has finished with an
\* error
C36_Witness ==
  /\ threads[1].pc = "done"
  /\ threads[1].state = "END"
  /\ threads[1].localErrorCode = "OK"
  /\ histories[1].log = << >>
  /\ acked # {}
  /\ threads[2].pc = "done"
  /\ threads[2].localErrorCode # "OK"

(***************************************************************************)
(* Properties of the reconnects of a thread                                *)
(***************************************************************************)
\* C37: there is no cycle through CONNECT in which a thread reconnects
\* again and again while nothing is acknowledged and
\* numReconnectWithoutProgress is not incremented: a thread that has
\* reconnected after an error is never again about to run CONNECT with all
\* the sender holds (the thread, the histories, the queue, the acknowledged
\* sources, the abort code and the negotiation) as it was when that
\* reconnect began, so every thread reaches END whatever its peer does.
C37_NoReconnectCycle ==
  \A t \in Threads :
    ~ /\ probe.function = "reconnect"
      /\ probe.seen
      /\ threads[t].pc = "run"
      /\ threads[t].state = "CONNECT"
      /\ Held37(t) = probe.held

(***************************************************************************)
(* Properties of the reads into the chunk buffer                           *)
(***************************************************************************)
\* C38: every read into the chunk buffer stays within its allocation: the
\* largest number of bytes read into it for a segment of the list is
\* between 0 and the bufSize the CHUNKS command announced, whatever lengths
\* the peer sends.
C38_ReadsWithinBuffer ==
  (probe.function = "readChunkList" /\ probe.applied) =>
    /\ probe.result.largestRead >= 0
    /\ probe.result.largestRead <= probe.script.bufSize

(***************************************************************************)
(* Properties of what FileByteSource::read hands to its caller             *)
(***************************************************************************)
\* C39: whenever FileByteSource::read hands a buffer (not null) the size it
\* reports is positive and 0 <= bytesRead_ <= size_ holds afterwards, for
\* every result of pread, so that the check of the sender on what a source
\* without error handed never fails.
C39_HandedBufferHasBytes ==
  probe.function = "FileByteSource::read" =>
    /\ ~probe.last.null =>
         /\ probe.last.size > 0
         /\ 0 <= probe.bytesRead_
         /\ probe.bytesRead_ <= probe.size_
    /\ probe.stopped # "WDT_CHECK"

(***************************************************************************)
(* Properties of a version mismatch after the negotiation                  *)
(***************************************************************************)
\* thread t runs the handler of PROCESS_VERSION_MISMATCH in this step and
\* finds the negotiation resolved
EntersResolved(t) ==
  /\ EntersMismatch(t)
  /\ Alive
  /\ protoNegotiationStatus = "V_MISMATCH_RESOLVED"
  /\ threads'[t] # threads[t]

\* C40: the negotiation of the protocol version succeeds at most once per
\* transfer: a thread that enters PROCESS_VERSION_MISMATCH when the status
\* is already V_MISMATCH_RESOLVED goes to END without waiting at the
\* barrier or the funnel, the status stays V_MISMATCH_RESOLVED once it is,
\* and it never returns to V_MISMATCH_WAIT once it has left it.
C40_NegotiatedOnce ==
  /\ [][\A t \in Threads :
          EntersResolved(t) =>
            /\ threads'[t].state = "END"
            /\ threads'[t].pc = "exit"
            /\ arrived' = arrived
            /\ funnel' = funnel]_vars
  /\ [][protoNegotiationStatus = "V_MISMATCH_RESOLVED" =>
          protoNegotiationStatus' = "V_MISMATCH_RESOLVED"]_vars
  /\ [][protoNegotiationStatus # "V_MISMATCH_WAIT" =>
          protoNegotiationStatus' # "V_MISMATCH_WAIT"]_vars

\* the only thread has left its loop at END after its peer aborted with a
\* version mismatch once more, the negotiation resolved before: the abort
\* code of the second mismatch is still set, which the first resolution had
\* cleared, and the thread did not find the proposal incompatible
C40_Witness ==
  /\ options.ports = 1
  /\ protoNegotiationStatus = "V_MISMATCH_RESOLVED"
  /\ abortCode = "VERSION_MISMATCH"
  /\ funnel = "FUNNEL_END"
  /\ threads[1].pc = "exit"
  /\ threads[1].state = "END"
  /\ threads[1].localErrorCode = "ABORT"
  /\ threads[1].remoteErrorCode = "VERSION_MISMATCH"

=============================================================================
